---- MODULE Spec2Model ----
(***************************************************************************)
(* Model of nmsr-rs: player-part geometry, the software rasterizer, the    *)
(* Blockbench face export, the texture resolver and cache expiry.          *)
(*                                                                         *)
(* f32 quantities (positions, sizes, rotations, expansion amounts) are     *)
(* fixed-point integers in units of 1/Scale; the literals of the source    *)
(* (0.05, 0.25, 0.5, 2.0) are all exact multiples of that unit.            *)
(* Texel coordinates (u16) are plain integers reduced modulo 2^16.         *)
(* Option<T> is a sequence: <<>> is None, <<x>> is Some(x).                *)
(***************************************************************************)
EXTENDS Integers, Sequences, FiniteSets, TLC

VARIABLES
    part,        \* Part::expand driver: the part being expanded (self / return value)
    prevPart,    \* Option<Part>: the receiver of the last expand call
    amount,      \* the `amount` argument of the last expand call
    expands,     \* number of expand calls made so far
    context,     \* PlayerPartProviderContext<M> handed to get_parts
    material,    \* the ArmorMaterial type parameter M (its get_texture_type table)
    region,      \* Option<PlayerBodyPartType>: `body_part` argument of the last get_parts call
    result,      \* Vec<Part> returned by the last get_parts call
    panicked,    \* TRUE iff the last get_parts call hit an unreachable!() branch
    quad,        \* the Quad primitive (its four vertices)
    mesh,        \* Option<[vertices, indices]>: what get_vertices / get_indices returned
    output,      \* RenderEntry.textures.output: pixel -> colour
    depth_buffer,\* RenderEntry.textures.depth_buffer: pixel -> depth
    tri,         \* Option<<<va, vb, vc>>>: transformed vertices of the last draw_triangle call
    output0,     \* colour buffer before the last draw_triangle call
    depth0,      \* depth buffer before the last draw_triangle call
    reads,       \* coordinates at which the last call read the depth buffer
    writes,      \* coordinates at which the last call wrote the colour and depth buffers
    shaded,  \* coordinates for which the last call invoked fragment_shader
    face_uv, \* the FaceUv argument `uv` of RawProjectElementFace::new
    face_texture, \* the `texture` argument of RawProjectElementFace::new
    face_horizontal, \* the `horizontal` argument of RawProjectElementFace::new
    face,    \* Option<RawProjectElementFace>: what RawProjectElementFace::new returned
    primitive, \* draw_primitives: the primitive's vertex buffer (as transformed by the vertex shader) and index buffer
    drawn, \* number of draw_triangle calls draw_primitives has completed
    returned, \* TRUE iff draw_primitives has returned
    triangles, \* the index triples handed to draw_triangle so far, in call order
    visited, \* per draw_triangle call, the number of pixels its loops visited
    colour_writes, \* coordinates at which the colour buffer was ever written
    depth_writes, \* coordinates at which the depth buffer was ever written
    depth_values, \* the depth values ever written
    owner, \* pixel -> ordinal of the draw_triangle call that shaded its current colour, 0 if none
    depth_start, \* depth buffer when draw_primitives was called
    resolved_cache, \* ModelCache: resolved-texture cache, RenderRequestEntry -> ResolvedRenderEntryTextures
    texture_cache, \* ModelCache: ids of the cached textures
    request_entry, \* Option<RenderRequestEntry>: the `entry` argument of the current or last resolve_entry_textures call
    resolve_pc, \* position of the resolve_entry_textures call: idle (returned), lookup, fetch, upstream, cache_texture, store
    pending, \* textures the call has still to fetch, in fetch order
    fetched, \* texture type -> MojangTexture obtained so far (skin_texture, cape_texture)
    resolved_model, \* Option<RenderRequestEntryModel>: the local `model`
    events, \* cache and upstream operations the call has performed, in order
    outcome, \* Option<Result<ResolvedRenderEntryTextures>>: what the call returned
    marker_value, \* the ResolvedRenderEntryTextures whose model marker is written
    marker_slice, \* Option<[u8; 1]>: what to_marker_slice returned
    marker_struct, \* Option<ResolvedRenderEntryTexturesMarker>: what From::from returned
    marker_decoded, \* Option<ResolvedRenderEntryTextures>: what new_from_marker_slice returned
    cache_biases, \* ModelCacheConfiguration.cache_biases: RenderRequestEntry -> CacheBias
    expiry_entry, \* the `entry` argument of is_expired_with_default
    default_duration, \* the `default_duration` argument
    marker_modified, \* Option<SystemTime>: marker_metadata.modified(), None when it is an Err
    now, \* SystemTime::now() at the call
    expired, \* Option<Result<bool>>: what is_expired_with_default returned
    expiry_panicked \* TRUE iff the call panicked

expandVars == <<part, prevPart, amount, expands>>
partsVars == <<context, material, region, result, panicked>>
quadVars == <<quad, mesh>>
rasterVars == <<output, depth_buffer, tri, output0, depth0, reads, writes, shaded>>
faceVars == <<face_uv, face_texture, face_horizontal, face>>
drawVars == <<primitive, drawn, returned, triangles, visited, colour_writes, depth_writes, depth_values, owner, depth_start>>
resolveVars == <<resolved_cache, texture_cache, request_entry, resolve_pc, pending, fetched, resolved_model, events, outcome>>
markerVars == <<marker_value, marker_slice, marker_struct, marker_decoded>>
expiryVars == <<cache_biases, expiry_entry, default_duration, marker_modified, now, expired, expiry_panicked>>

vars == <<expandVars, partsVars, quadVars, rasterVars, faceVars, drawVars, resolveVars, markerVars, expiryVars>>

----------------------------------------------------------------------------
(* Bounds of the model *)

MaxAmount == 2       \* expansion amounts range over -1/4 .. MaxAmount/4
MaxExpands == 2      \* expand calls chained on one part
MaxRot == 1          \* arm swing angles range over -30*MaxRot .. 30*MaxRot degrees
MaxShadow == 1       \* shadow heights range over -MaxShadow/2 .. MaxShadow/2
MaxQuad == 3         \* quad corner coordinates range over 0 .. MaxQuad
Width == 2           \* viewport width in pixels (RenderEntry.size.width)
Height == 2          \* viewport height in pixels (RenderEntry.size.height)
MaxZ == 4            \* transformed vertices have z = 0 or z = MaxZ (grid units)
MaxUv == 2           \* texel coordinates of a serialized FaceUv range over 0 .. MaxUv
MaxIndices == 6      \* index buffers handed to draw_primitives have 0 .. MaxIndices entries
MaxTextures == 2     \* texture ids are 1..MaxTextures
MaxUuids == 1        \* player ids are 1..MaxUuids
MaxTime == 3         \* the largest SystemTime; durations range over 0 .. 2 * MaxTime + 1

----------------------------------------------------------------------------
(* Numeric representation *)

Scale == 100

None == <<>>
Some(x) == <<x>>
IsSome(o) == Len(o) = 1
Unwrap(o) == o[1]

F(n) == n * Scale                       \* integer literal `n as f32`
U16(n) == n % 65536                     \* `as u16` of an i32
Trunc(f) == IF f >= 0 THEN f \div Scale ELSE -((-f) \div Scale)  \* f32 -> integer part
F32AsU16(f) == IF f <= 0 THEN 0 ELSE IF Trunc(f) > 65535 THEN 65535 ELSE Trunc(f)

Vec3(x, y, z) == <<x, y, z>>
ZERO == Vec3(0, 0, 0)
splat(a) == Vec3(a, a, a)
VAdd(u, v) == Vec3(u[1] + v[1], u[2] + v[2], u[3] + v[3])
VSub(u, v) == Vec3(u[1] - v[1], u[2] - v[2], u[3] - v[3])
VMulS(u, k) == Vec3(u[1] * k, u[2] * k, u[3] * k)           \* by an integral scalar
VDivS(u, k) == Vec3(u[1] \div k, u[2] \div k, u[3] \div k)  \* by an integral scalar
VMulI(u, m) == Vec3(u[1] * m[1], u[2] * m[2], u[3] * m[3])  \* by an integral vector

----------------------------------------------------------------------------
(* UV rectangles *)

FaceUv(x1, y1, x2, y2) ==
    [top_left |-> <<x1, y1>>, bottom_right |-> <<x2, y2>>,
     cw_rotation_count |-> 0, flipped_horizontally |-> FALSE, flipped_vertically |-> FALSE]

uv_from_pos_and_size(x, y, w, h) == FaceUv(U16(x), U16(y), U16(x + w), U16(y + h))

box_uv(x, y, size) ==
    LET w == size[1]
        h == size[2]
        d == size[3]
    IN  [north |-> uv_from_pos_and_size(x, y, w, h),
         south |-> uv_from_pos_and_size(U16(x + w + d), y, w, h),
         east  |-> uv_from_pos_and_size(U16(x - d), y, d, h),
         west  |-> uv_from_pos_and_size(U16(x + w), y, d, h),
         up    |-> uv_from_pos_and_size(x, U16(y - d), w, d),
         down  |-> uv_from_pos_and_size(U16(x + w), U16(y - d), w, d)]

----------------------------------------------------------------------------
(* Part model *)

new_cube_PosFromSize(texture, pos, size, uvs) ==
    [kind |-> "Cube",
     position |-> Vec3(F(size[1]), F(size[2]), F(size[3])),
     size |-> Vec3(F(size[1]), F(size[2]), F(size[3])),
     rotation |-> ZERO,
     face_uvs |-> uvs,
     texture |-> texture,
     anchor |-> None]

new_cube(texture, pos, size, uvs) ==
    [kind |-> "Cube",
     position |-> Vec3(F(pos[1]), F(pos[2]), F(pos[3])),
     size |-> Vec3(F(size[1]), F(size[2]), F(size[3])),
     rotation |-> ZERO,
     face_uvs |-> uvs,
     texture |-> texture,
     anchor |-> None]

\* pos is f32 already, size is an integer triple
new_quad(texture, pos, size, uv) ==
    [kind |-> "Quad",
     position |-> pos,
     size |-> Vec3(F(size[1]), F(size[2]), F(size[3])),
     rotation |-> ZERO,
     face_uv |-> uv,
     texture |-> texture,
     anchor |-> None]

expand_NoRecentre(self, amt) ==
    LET amount2 == VMulS(amt, 2)
    IN  [self EXCEPT !.size = VAdd(@, amount2)]

expand_QuadRecentred(self, amt) ==
    LET amount2 == VMulS(amt, 2)
    IN  [self EXCEPT !.size = VAdd(@, amount2),
                     !.position = VSub(@, VDivS(amount2, 2))]

expand(self, amt) ==
    LET amount2 == VMulS(amt, 2)
    IN  IF self.kind = "Cube"
        THEN [self EXCEPT !.size = VAdd(@, amount2),
                          !.position = VSub(@, VDivS(amount2, 2))]
        ELSE [self EXCEPT !.size = VAdd(@, amount2)]

expand_splat(self, a) == expand(self, splat(a))

get_size(self) == self.size
get_position(self) == self.position
get_rotation(self) == self.rotation
get_anchor(self) == self.anchor
get_texture(self) == self.texture
set_anchor(self, a) == [self EXCEPT !.anchor = a]
set_rotation(self, r) == [self EXCEPT !.rotation = r]
set_rotation_z(self, z) == [self EXCEPT !.rotation[3] = z]
set_texture(self, t) == [self EXCEPT !.texture = t]

new_rotation_anchor_position(p) == [anchor |-> p]

----------------------------------------------------------------------------
(* Body regions and equipment slots *)

BaseParts == {"Head", "Body", "LeftArm", "RightArm", "LeftLeg", "RightLeg"}
BodyLayerParts == {"BodyLayer", "LeftArmLayer", "RightArmLayer", "LeftLegLayer", "RightLegLayer"}
PlayerBodyPartType == BaseParts \cup BodyLayerParts \cup {"HeadLayer"}

is_layer(bp) == bp \in BodyLayerParts
is_hat_layer(bp) == bp = "HeadLayer"

get_non_layer_part(bp) ==
    CASE bp = "HeadLayer" -> "Head"
      [] bp = "BodyLayer" -> "Body"
      [] bp = "LeftArmLayer" -> "LeftArm"
      [] bp = "RightArmLayer" -> "RightArm"
      [] bp = "LeftLegLayer" -> "LeftLeg"
      [] bp = "RightLegLayer" -> "RightLeg"
      [] OTHER -> bp

PlayerArmorSlot == {"Helmet", "Chestplate", "Leggings", "Boots"}

get_armor_slots_for_part(bp) ==
    CASE bp = "Head" -> <<"Helmet">>
      [] bp = "Body" -> <<"Chestplate", "Leggings">>
      [] bp \in {"LeftArm", "RightArm"} -> <<"Chestplate">>
      [] bp \in {"LeftLeg", "RightLeg"} -> <<"Leggings", "Boots">>
      [] OTHER -> <<>>

get_offset(slot) == IF slot = "Leggings" THEN Scale \div 2 ELSE Scale

ArmorTexture(slot) == "Armor" \o slot

\* M::get_texture_type(slot); M is given by the set of slots it has textures for
get_texture_type(M, slot) == IF slot \in M THEN Some(ArmorTexture(slot)) ELSE None

\* armor_slots.get_armor_slot(slot); armor_slots is given by the set of filled slots
get_armor_slot(armor_slots, slot) == IF slot \in armor_slots THEN Some(slot) ELSE None

----------------------------------------------------------------------------
(* MinecraftPlayerPartsProvider *)

body_part_SwappedPosSize(pos, size, box_uv_start, texture_type) ==
    new_cube(texture_type, size, pos, box_uv(box_uv_start[1], box_uv_start[2], size))

body_part(pos, size, box_uv_start, texture_type) ==
    new_cube(texture_type, pos, size, box_uv(box_uv_start[1], box_uv_start[2], size))

Unreachable == [kind |-> "Unreachable"]

compute_base_part(non_layer_body_part_type, is_slim_arms) ==
    CASE non_layer_body_part_type = "Head" ->
            body_part(<<-4, 24, -4>>, <<8, 8, 8>>, <<8, 8>>, "Skin")
      [] non_layer_body_part_type = "Body" ->
            body_part(<<-4, 12, -2>>, <<8, 12, 4>>, <<20, 20>>, "Skin")
      [] non_layer_body_part_type = "LeftArm" ->
            IF is_slim_arms
            THEN body_part(<<-7, 12, -2>>, <<3, 12, 4>>, <<36, 52>>, "Skin")
            ELSE body_part(<<-8, 12, -2>>, <<4, 12, 4>>, <<36, 52>>, "Skin")
      [] non_layer_body_part_type = "RightArm" ->
            IF is_slim_arms
            THEN body_part(<<4, 12, -2>>, <<3, 12, 4>>, <<44, 20>>, "Skin")
            ELSE body_part(<<4, 12, -2>>, <<4, 12, 4>>, <<44, 20>>, "Skin")
      [] non_layer_body_part_type = "LeftLeg" ->
            body_part(<<-4, 0, -2>>, <<4, 12, 4>>, <<20, 52>>, "Skin")
      [] non_layer_body_part_type = "RightLeg" ->
            body_part(<<0, 0, -2>>, <<4, 12, 4>>, <<4, 20>>, "Skin")
      [] OTHER -> Unreachable

perform_arm_part_rotation_SameSign(non_layer_body_part_type, p, is_slim_arms, arm_rotation_angle) ==
    LET normal_part_size == get_size(compute_base_part(non_layer_body_part_type, is_slim_arms))
    IN  IF non_layer_body_part_type = "LeftArm"
        THEN LET rotation == VMulI(normal_part_size, Vec3(-1, 2, 0))
             IN  set_rotation_z(set_anchor(p, Some(new_rotation_anchor_position(rotation))),
                                arm_rotation_angle)
        ELSE IF non_layer_body_part_type = "RightArm"
        THEN LET rotation == VMulI(normal_part_size, Vec3(1, 2, 0))
             IN  set_rotation_z(set_anchor(p, Some(new_rotation_anchor_position(rotation))),
                                arm_rotation_angle)
        ELSE p

perform_arm_part_rotation(non_layer_body_part_type, p, is_slim_arms, arm_rotation_angle) ==
    LET normal_part_size == get_size(compute_base_part(non_layer_body_part_type, is_slim_arms))
    IN  IF non_layer_body_part_type = "LeftArm"
        THEN LET rotation == VMulI(normal_part_size, Vec3(-1, 2, 0))
             IN  set_rotation_z(set_anchor(p, Some(new_rotation_anchor_position(rotation))),
                                -arm_rotation_angle)
        ELSE IF non_layer_body_part_type = "RightArm"
        THEN LET rotation == VMulI(normal_part_size, Vec3(1, 2, 0))
             IN  set_rotation_z(set_anchor(p, Some(new_rotation_anchor_position(rotation))),
                                arm_rotation_angle)
        ELSE p

cape_part ==
    set_rotation(
        set_anchor(body_part(<<-5, 8, 1>>, <<10, 16, 1>>, <<1, 1>>, "Cape"),
                   Some(new_rotation_anchor_position(Vec3(0, F(24), F(2))))),
        Vec3(F(5), F(180), 0))

append_cape_part(res) == Append(res, cape_part)

get_body_part_layer_uv_offset_NoRightLeg(non_layer_body_part_type) ==
    CASE non_layer_body_part_type = "Head" -> <<32, 0>>
      [] non_layer_body_part_type = "Body" -> <<0, 16>>
      [] non_layer_body_part_type = "LeftArm" -> <<16, 0>>
      [] non_layer_body_part_type = "RightArm" -> <<0, 16>>
      [] non_layer_body_part_type = "LeftLeg" -> <<-16, 0>>
      [] OTHER -> <<"unreachable">>

get_body_part_layer_uv_offset(non_layer_body_part_type) ==
    CASE non_layer_body_part_type = "Head" -> <<32, 0>>
      [] non_layer_body_part_type = "Body" -> <<0, 16>>
      [] non_layer_body_part_type = "LeftArm" -> <<16, 0>>
      [] non_layer_body_part_type = "RightArm" -> <<0, 16>>
      [] non_layer_body_part_type = "LeftLeg" -> <<-16, 0>>
      [] non_layer_body_part_type = "RightLeg" -> <<0, 16>>
      [] OTHER -> <<"unreachable">>

get_layer_expand_offset_Uniform(bp) == Scale \div 4

get_layer_expand_offset(bp) == IF bp = "Head" THEN Scale \div 2 ELSE Scale \div 4

expand_player_body_part_ExpandedUv(non_layer_body_part_type, p, expand_offset, box_uv_offset) ==
    LET new_part == expand_splat(p, expand_offset)
    IN  IF new_part.kind = "Quad"
        THEN Unreachable
        ELSE LET current_box_uv == new_part.face_uvs.north.top_left
                 size == get_size(new_part)
             IN  [new_part EXCEPT !.face_uvs =
                     box_uv(U16(current_box_uv[1] + box_uv_offset[1]),
                            U16(current_box_uv[2] + box_uv_offset[2]),
                            <<F32AsU16(size[1]), F32AsU16(size[2]), F32AsU16(size[3])>>)]

expand_player_body_part(non_layer_body_part_type, p, expand_offset, box_uv_offset) ==
    LET new_part == expand_splat(p, expand_offset)
    IN  IF new_part.kind = "Quad"
        THEN Unreachable
        ELSE LET current_box_uv == new_part.face_uvs.north.top_left
                 size == get_size(p)
             IN  [new_part EXCEPT !.face_uvs =
                     box_uv(U16(current_box_uv[1] + box_uv_offset[1]),
                            U16(current_box_uv[2] + box_uv_offset[2]),
                            <<F32AsU16(size[1]), F32AsU16(size[2]), F32AsU16(size[3])>>)]

shadow_part(shadow_y_pos) ==
    new_quad("Shadow", Vec3(F(-8), shadow_y_pos, F(-8)), <<16, 0, 16>>,
             uv_from_pos_and_size(0, 0, 128, 128))

armor_part_for_slot_SlimBase(ctx, M, non_layer_body_part_type, slot) ==
    IF IsSome(get_armor_slot(Unwrap(ctx.armor_slots), slot)) /\ IsSome(get_texture_type(M, slot))
    THEN LET texture == Unwrap(get_texture_type(M, slot))
             amt == get_offset(slot)
             expanded == expand_splat(compute_base_part(non_layer_body_part_type,
                                                        ctx.is_slim_arms), amt)
             armor_part == IF slot = "Chestplate" /\ non_layer_body_part_type # "Body"
                           THEN expand(expanded, Vec3(0, 0, Scale \div 20))
                           ELSE expanded
             rotated == perform_arm_part_rotation(non_layer_body_part_type, armor_part,
                                                  FALSE, ctx.arm_rotation)
         IN  <<set_texture(rotated, texture)>>
    ELSE <<>>

armor_part_for_slot_SlimPivot(ctx, M, non_layer_body_part_type, slot) ==
    IF IsSome(get_armor_slot(Unwrap(ctx.armor_slots), slot)) /\ IsSome(get_texture_type(M, slot))
    THEN LET texture == Unwrap(get_texture_type(M, slot))
             amt == get_offset(slot)
             expanded == expand_splat(compute_base_part(non_layer_body_part_type, FALSE), amt)
             armor_part == IF slot = "Chestplate" /\ non_layer_body_part_type # "Body"
                           THEN expand(expanded, Vec3(0, 0, Scale \div 20))
                           ELSE expanded
             rotated == perform_arm_part_rotation(non_layer_body_part_type, armor_part,
                                                  ctx.is_slim_arms, ctx.arm_rotation)
         IN  <<set_texture(rotated, texture)>>
    ELSE <<>>

\* body of the `for slot in part_slots` loop for one slot: the parts it pushes
armor_part_for_slot(ctx, M, non_layer_body_part_type, slot) ==
    IF IsSome(get_armor_slot(Unwrap(ctx.armor_slots), slot)) /\ IsSome(get_texture_type(M, slot))
    THEN LET texture == Unwrap(get_texture_type(M, slot))
             amt == get_offset(slot)
             expanded == expand_splat(compute_base_part(non_layer_body_part_type, FALSE), amt)
             armor_part == IF slot = "Chestplate" /\ non_layer_body_part_type # "Body"
                           THEN expand(expanded, Vec3(0, 0, Scale \div 20))
                           ELSE expanded
             rotated == perform_arm_part_rotation(non_layer_body_part_type, armor_part,
                                                  FALSE, ctx.arm_rotation)
         IN  <<set_texture(rotated, texture)>>
    ELSE <<>>

RECURSIVE armor_loop(_, _, _, _, _)
armor_loop(ctx, M, non_layer_body_part_type, part_slots, res) ==
    IF part_slots = <<>>
    THEN res
    ELSE armor_loop(ctx, M, non_layer_body_part_type, Tail(part_slots),
                    res \o armor_part_for_slot(ctx, M, non_layer_body_part_type, Head(part_slots)))

Ok(parts) == [panicked |-> FALSE, parts |-> parts]
Panic == [panicked |-> TRUE, parts |-> <<>>]

layers_disabled_HatIgnored(ctx, bp) == is_layer(bp) /\ ~ctx.has_layers

\* the early-return test on disabled layers
layers_disabled(ctx, bp) ==
    (is_layer(bp) /\ ~ctx.has_layers) \/ (is_hat_layer(bp) /\ ~ctx.has_hat_layer)

\* the layer branch: the single expanded part
layer_parts(non_layer_body_part_type, p) ==
    LET expand_offset == get_layer_expand_offset(non_layer_body_part_type)
        box_uv_offset == get_body_part_layer_uv_offset(non_layer_body_part_type)
    IN  IF box_uv_offset = <<"unreachable">>
        THEN Panic
        ELSE LET layer == expand_player_body_part(non_layer_body_part_type, p,
                                                  expand_offset, box_uv_offset)
             IN  IF layer = Unreachable THEN Panic ELSE Ok(<<layer>>)

cape_step_AnyRegion(ctx, bp, res) ==
    IF ctx.has_cape THEN append_cape_part(res) ELSE res

cape_step(ctx, bp, res) ==
    IF bp = "Body" /\ ctx.has_cape THEN append_cape_part(res) ELSE res

shadow_step_AnyRegion(ctx, bp, res) ==
    IF IsSome(ctx.shadow_y_pos)
    THEN Append(res, shadow_part(Unwrap(ctx.shadow_y_pos)))
    ELSE res

shadow_step(ctx, bp, res) ==
    IF bp = "Head" /\ IsSome(ctx.shadow_y_pos)
    THEN Append(res, shadow_part(Unwrap(ctx.shadow_y_pos)))
    ELSE res

armor_step(ctx, M, non_layer_body_part_type, res) ==
    IF IsSome(ctx.armor_slots)
    THEN armor_loop(ctx, M, non_layer_body_part_type,
                    get_armor_slots_for_part(non_layer_body_part_type), res)
    ELSE res

get_parts(ctx, M, bp) ==
    IF layers_disabled(ctx, bp)
    THEN Ok(<<>>)
    ELSE
    LET non_layer_body_part_type == get_non_layer_part(bp)
        base == compute_base_part(non_layer_body_part_type, ctx.is_slim_arms)
    IN  IF base = Unreachable THEN Panic ELSE
    LET p == perform_arm_part_rotation(non_layer_body_part_type, base,
                                       ctx.is_slim_arms, ctx.arm_rotation)
    IN  IF is_layer(bp) \/ is_hat_layer(bp)
        THEN layer_parts(non_layer_body_part_type, p)
        ELSE Ok(armor_step(ctx, M, non_layer_body_part_type,
                           shadow_step(ctx, bp, cape_step(ctx, bp, <<p>>))))

----------------------------------------------------------------------------
(* Quad primitive *)

Vertex(position, uv, normal) == [position |-> position, uv |-> uv, normal |-> normal]

cross(u, v) ==
    Vec3(u[2] * v[3] - u[3] * v[2], u[3] * v[1] - u[1] * v[3], u[1] * v[2] - u[2] * v[1])

Sgn(n) == IF n > 0 THEN 1 ELSE IF n < 0 THEN -1 ELSE 0

\* Vec3::normalize of a vector along one coordinate axis
normalize(v) == Vec3(Sgn(v[1]), Sgn(v[2]), Sgn(v[3]))

new_with_normal(top_left, top_right, bottom_left, bottom_right, top_left_uv, bottom_right_uv, normal) ==
    [top_left |-> Vertex(top_left, top_left_uv, normal),
     top_right |-> Vertex(top_right, <<bottom_right_uv[1], top_left_uv[2]>>, normal),
     bottom_left |-> Vertex(bottom_left, <<top_left_uv[1], bottom_right_uv[2]>>, normal),
     bottom_right |-> Vertex(bottom_right, bottom_right_uv, normal)]

Quad_new(top_left, top_right, bottom_left, bottom_right, top_left_uv, bottom_right_uv) ==
    LET normal == normalize(cross(VSub(top_right, top_left), VSub(bottom_left, top_left)))
    IN  new_with_normal(top_left, top_right, bottom_left, bottom_right,
                        top_left_uv, bottom_right_uv, normal)

get_vertices(self) == <<self.top_left, self.top_right, self.bottom_left, self.bottom_right>>

get_indices_WrongDiagonal(self) == <<2, 0, 3, 0, 1, 2>>

get_indices_OneBased(self) == <<3, 1, 4, 1, 2, 4>>

get_indices(self) == <<2, 0, 3, 0, 1, 3>>

----------------------------------------------------------------------------
(* Software rasterizer                                                     *)
(*                                                                         *)
(* Screen-space positions are integers in units of 1/Grid of the           *)
(* normalised [0,1] range; Grid is a multiple of Width and Height, so the  *)
(* sample point of every pixel is a grid point and the barycentric         *)
(* numerators and denominator are exact integers.  A quotient n/d is kept  *)
(* as the pair and its f32 sign is read off it: n/0 is -inf, NaN or +inf.  *)
(* Depths are fixed-point in units of 1/Scale.                             *)
(***************************************************************************)

Grid == Width * Height

Pixels == (0..(Width - 1)) \X (0..(Height - 1))

Min2(a, b) == IF a <= b THEN a ELSE b
Max2(a, b) == IF a >= b THEN a ELSE b

floor(v) == (v \div Grid) * Grid                \* f32::floor
ceil(v) == -(((-v) \div Grid) * Grid)           \* f32::ceil
AsU32(n) == IF n < 0 THEN 0 ELSE n              \* `as u32` of an integral f32

map_float_u32_NoClamp(value, min, max) ==
    AsU32((value * (max - min)) \div Grid + min)

map_float_u32(value, min, max) ==
    LET clamped == Min2(Max2(value, 0), Grid)
    IN  AsU32((clamped * (max - min)) \div Grid + min)

map_u32_float(value, min, max) ==
    LET clamped == Min2(Max2(value, min), max)
    IN  ((clamped - min) * Grid) \div (max - min)

dot(u, v) == u[1] * v[1] + u[2] * v[2] + u[3] * v[3]

\* the closure `barycentric_coordinates`: v = nv/denom, w = nw/denom, u = 1 - v - w
barycentric_coordinates(x, y, a, b, c) ==
    LET v0 == VSub(b, a)
        v1 == VSub(c, a)
        v2 == VSub(Vec3(x, y, 0), a)
        d00 == dot(v0, v0)
        d01 == dot(v0, v1)
        d11 == dot(v1, v1)
        d20 == dot(v2, v0)
        d21 == dot(v2, v1)
    IN  [denom |-> d00 * d11 - d01 * d01,
         nv |-> d11 * d20 - d01 * d21,
         nw |-> d00 * d21 - d01 * d20]

\* n/d < 0.0 in f32 (false for NaN)
QuotNegative(n, d) ==
    IF d = 0 THEN n < 0 ELSE (n < 0 /\ d > 0) \/ (n > 0 /\ d < 0)

\* 1.0 - nv/d - nw/d < 0.0 in f32 (false for NaN)
RestNegative(nv, nw, d) ==
    IF d = 0 THEN nv > 0 /\ nw > 0
    ELSE IF d > 0 THEN nv + nw > d ELSE nv + nw < d

\* the test `barycentric.x < 0.0 || barycentric.y < 0.0 || barycentric.z < 0.0`
outside_triangle_NoW(bc) ==
    \/ RestNegative(bc.nv, bc.nw, bc.denom)
    \/ QuotNegative(bc.nv, bc.denom)

outside_triangle(bc) ==
    \/ RestNegative(bc.nv, bc.nw, bc.denom)
    \/ QuotNegative(bc.nv, bc.denom)
    \/ QuotNegative(bc.nw, bc.denom)

\* `let depth = 1.0`
pixel_depth_Half == Scale \div 2

pixel_depth == Scale

\* the test `depth < depth_buffer.get_pixel(..)[0]` that skips the pixel
behind_depth_buffer_OrEqual(d, stored) == d <= stored

behind_depth_buffer(d, stored) == d < stored

\* the colour fragment_shader and convert_f32_slice_to_u8_slice give the pixel
fragment_shader(va, vb, vc, bc) == 255

min_screen_x(t) == map_float_u32(floor(Min2(Min2(t[1][1], t[2][1]), t[3][1])), 0, Width)
max_screen_x(t) == map_float_u32(ceil(Max2(Max2(t[1][1], t[2][1]), t[3][1])), 0, Width)
min_screen_y(t) == map_float_u32(floor(Min2(Min2(t[1][2], t[2][2]), t[3][2])), 0, Height)
max_screen_y(t) == map_float_u32(ceil(Max2(Max2(t[1][2], t[2][2]), t[3][2])), 0, Height)

\* the coordinates the two nested `for` loops visit
bounding_box(t) ==
    (min_screen_x(t)..(max_screen_x(t) - 1)) \X (min_screen_y(t)..(max_screen_y(t) - 1))

\* barycentric coordinates of the sample point of the pixel at <<screen_x, screen_y>>
pixel_barycentric(t, p) ==
    barycentric_coordinates(map_u32_float(p[1], 0, Width), map_u32_float(p[2], 0, Height),
                            t[1], t[2], t[3])

\* out-of-range get_pixel panics; the read is recorded all the same
get_pixel(buf, p) == IF p \in DOMAIN buf THEN buf[p] ELSE 0

\* the visited coordinates for which the loop body reaches the shading code
covered_pixels(t) ==
    {p \in bounding_box(t) : ~outside_triangle(pixel_barycentric(t, p))}

\* the covered coordinates for which the loop body reaches the two put_pixel calls
written_pixels(dep, t, covered) ==
    {p \in covered : ~behind_depth_buffer(pixel_depth, get_pixel(dep, p))}

\* the buffers after the loops of draw_triangle on t = <<va, vb, vc>>
put_pixels(out, dep, t, covered, written) ==
    [output |-> [p \in DOMAIN out |->
                    IF p \in written
                    THEN fragment_shader(t[1], t[2], t[3], pixel_barycentric(t, p))
                    ELSE out[p]],
     depth_buffer |-> [p \in DOMAIN dep |-> IF p \in written THEN pixel_depth ELSE dep[p]],
     shaded |-> covered,
     reads |-> covered,
     writes |-> written]

\* one call of draw_triangle on the transformed vertices t = <<va, vb, vc>>
draw_triangle(out, dep, t) ==
    LET covered == covered_pixels(t)
    IN  put_pixels(out, dep, t, covered, written_pixels(dep, t, covered))

----------------------------------------------------------------------------
(* draw_primitives *)

\* `indices.chunks_exact(3)`: the full groups of three, the remainder dropped
chunks_exact_Windows(indices) ==
    [k \in 1..(IF Len(indices) < 3 THEN 0 ELSE Len(indices) - 2) |->
        <<indices[k], indices[k + 1], indices[k + 2]>>]

chunks_exact_Reversed(indices) ==
    [k \in 1..(Len(indices) \div 3) |->
        LET j == (Len(indices) \div 3) + 1 - k
        IN  <<indices[3 * j - 2], indices[3 * j - 1], indices[3 * j]>>]

chunks_exact(indices) ==
    [k \in 1..(Len(indices) \div 3) |->
        <<indices[3 * k - 2], indices[3 * k - 1], indices[3 * k]>>]

\* va, vb, vc of draw_triangle: the shader outputs of the vertices at
\* indices[2], indices[1], indices[0]
triangle_vertices(vertices, triangle) ==
    <<vertices[triangle[3] + 1], vertices[triangle[2] + 1], vertices[triangle[1] + 1]>>

\* the number of loop iterations of one draw_triangle call
visited_pixels(t) == Cardinality(bounding_box(t))

----------------------------------------------------------------------------
(* Blockbench face serialization *)

\* one clockwise quarter turn: the top-left corner becomes the old bottom-left,
\* the bottom-right the old top-right, and the rotation count advances modulo 4
rotate_cw(uv) ==
    [uv EXCEPT !.top_left = <<uv.top_left[1], uv.bottom_right[2]>>,
               !.bottom_right = <<uv.bottom_right[1], uv.top_left[2]>>,
               !.cw_rotation_count = (uv.cw_rotation_count + 1) % 4]

flip_vertically(uv) ==
    [uv EXCEPT !.top_left = <<uv.top_left[1], uv.bottom_right[2]>>,
               !.bottom_right = <<uv.bottom_right[1], uv.top_left[2]>>,
               !.flipped_vertically = ~uv.flipped_vertically]

flip_horizontally(uv) ==
    [uv EXCEPT !.top_left = <<uv.bottom_right[1], uv.top_left[2]>>,
               !.bottom_right = <<uv.top_left[1], uv.bottom_right[2]>>,
               !.flipped_horizontally = ~uv.flipped_horizontally]

\* `uv = uv.<op>()`, with the call recorded
call_uv(st, op) ==
    [uv |-> CASE op = "rotate_cw" -> rotate_cw(st.uv)
              [] op = "flip_vertically" -> flip_vertically(st.uv)
              [] op = "flip_horizontally" -> flip_horizontally(st.uv),
     calls |-> Append(st.calls, op)]

\* `for _ in 0..n { uv = uv.rotate_cw(); }`
RECURSIVE rotate_loop(_, _)
rotate_loop(st, n) == IF n <= 0 THEN st ELSE rotate_loop(call_uv(st, "rotate_cw"), n - 1)

\* `let current_rotation = 4 - uv.cw_rotation_count`
current_rotation_SameCount(uv) == uv.cw_rotation_count

current_rotation(uv) == 4 - uv.cw_rotation_count

\* the `rotation` field, in degrees
face_rotation(original_uv) ==
    IF original_uv.cw_rotation_count > 0
    THEN ((original_uv.cw_rotation_count + 2) % 4) * 90
    ELSE original_uv.cw_rotation_count * 90

\* the uv after the rotation block
normalize_rotation(original_uv) ==
    IF original_uv.cw_rotation_count > 0
    THEN rotate_loop([uv |-> original_uv, calls |-> <<>>], current_rotation(original_uv))
    ELSE [uv |-> original_uv, calls |-> <<>>]

\* the two flip blocks
apply_flips(original_uv, st) ==
    LET v == IF original_uv.flipped_vertically THEN call_uv(st, "flip_vertically") ELSE st
    IN  IF original_uv.flipped_horizontally
        THEN IF original_uv.cw_rotation_count > 0
             THEN call_uv(v, "flip_vertically")
             ELSE call_uv(v, "flip_horizontally")
        ELSE v

\* RawProjectElementFace::new; `calls` lists the FaceUv operations it made and
\* `normalized` is the uv the flips were applied to
RawProjectElementFace_new(texture, uv, horizontal) ==
    LET normalized == normalize_rotation(uv)
        final == apply_flips(uv, normalized)
    IN  [texture |-> texture,
         rotation |-> face_rotation(uv),
         uv |-> <<F(final.uv.top_left[1]), F(final.uv.top_left[2]),
                  F(final.uv.bottom_right[1]), F(final.uv.bottom_right[2])>>,
         calls |-> final.calls,
         normalized |-> normalized.uv]

----------------------------------------------------------------------------
(* RenderRequestResolver                                                   *)
(*                                                                         *)
(* ModelCache is a keyed store: the resolved-texture cache maps an entry   *)
(* to its ResolvedRenderEntryTextures and the texture cache holds texture  *)
(* ids; a read answers from what the store holds and a write that returns  *)
(* an error stores nothing.  Player and texture ids are small integers     *)
(* and the bytes of a texture are determined by its id.                    *)
(***************************************************************************)

\* the variants of RenderRequestEntryModel in discriminant order (Steve = 0, Alex = 1)
RenderRequestEntryModel == <<"Steve", "Alex">>

RenderRequestEntry(kind, value) == [kind |-> kind, value |-> value]

texture_bytes(texture_id) == <<"png", texture_id>>

new_named(hash, data) == [hash |-> Some(hash), data |-> data]

new_unnamed(data) == [hash |-> None, data |-> data]

ResolvedRenderEntryTextures_new(textures, model) == [textures |-> textures, model |-> model]

ResultOk(value) == [ok |-> TRUE, value |-> Some(value), error |-> ""]
ResultErr(error) == [ok |-> FALSE, value |-> None, error |-> error]

get_cached_resolved_texture(cache, entry) ==
    IF entry \in DOMAIN cache THEN Some(cache[entry]) ELSE None

cache_resolved_texture(cache, entry, textures) ==
    [e \in DOMAIN cache \cup {entry} |-> IF e = entry THEN textures ELSE cache[e]]

get_cached_texture(cache, texture_id) ==
    IF texture_id \in cache
    THEN Some(new_named(texture_id, texture_bytes(texture_id)))
    ELSE None

cache_texture(cache, texture) == cache \cup {Unwrap(texture.hash)}

\* one cache or upstream operation of a call: its name, its key and how it answered
\* ("hit" / "miss" for a cache read, "ok" for a request or write, "err" for an Err)
Event(op, key, answer) == [op |-> op, key |-> key, answer |-> answer]

NoTextures == [t \in {} |-> None]

Slot(type, texture_id, from_profile) ==
    [type |-> type, id |-> texture_id, from_profile |-> from_profile]

\* `model` of a Mojang profile: Alex for a slim skin, Steve otherwise
skin_model(is_slim) == IF is_slim THEN Some("Alex") ELSE Some("Steve")

\* the fetch_game_profile_texture calls of the Mojang branch: the skin, then the cape if any
profile_textures(skin, cape) ==
    <<Slot("Skin", Unwrap(skin), TRUE)>>
        \o (IF IsSome(cape) THEN <<Slot("Cape", Unwrap(cape), TRUE)>> ELSE <<>>)

\* the first step of fetch_texture_from_mojang after the cache answered
after_cached_texture(cached) == IF IsSome(cached) THEN "return" ELSE "upstream"

\* where resolve_entry_textures continues once a texture is in hand
after_texture_StoreFirst(rest) == "store"

after_texture(rest) == IF rest = <<>> THEN "store" ELSE "fetch"

\* the `match &entry` up to the first texture fetch, given what upstream answered:
\* the operations performed, the error returned if any, and the locals
lookup(entry, answer) ==
    LET none == [events |-> <<>>, error |-> None, model |-> None,
                 pending |-> <<>>, fetched |-> NoTextures]
    IN  CASE entry.kind = "MojangPlayerUuid" ->
               IF ~answer.ok
               THEN [none EXCEPT !.events = <<Event("resolve_uuid_to_game_profile", entry.value, "err")>>,
                                 !.error = Some("MojangRequest")]
               ELSE LET done == [none EXCEPT !.events =
                                    <<Event("resolve_uuid_to_game_profile", entry.value, "ok")>>]
                    IN  IF ~answer.textures_ok
                        THEN [done EXCEPT !.error = Some("InvalidTexturesProperty")]
                        ELSE IF answer.skin = None
                        THEN [done EXCEPT !.error = Some("MissingSkinPropertyError")]
                        ELSE [done EXCEPT !.model = skin_model(answer.slim),
                                          !.pending = profile_textures(answer.skin, answer.cape)]
          [] entry.kind = "GeyserPlayerUuid" ->
               IF ~answer.ok
               THEN [none EXCEPT !.events = <<Event("resolve_geyser_uuid_to_texture_and_model", entry.value, "err")>>,
                                 !.error = Some("GeyserRequest")]
               ELSE [none EXCEPT !.events = <<Event("resolve_geyser_uuid_to_texture_and_model", entry.value, "ok")>>,
                                 !.model = Some(answer.model),
                                 !.pending = <<Slot("Skin", Unwrap(answer.skin), FALSE)>>]
          [] entry.kind = "TextureHash" ->
               [none EXCEPT !.pending = <<Slot("Skin", entry.value, FALSE)>>]
          [] entry.kind = "PlayerSkin" ->
               [none EXCEPT !.fetched = [t \in {"Skin"} |-> new_unnamed(entry.value)]]

\* the `textures` map with one more texture inserted
insert(textures, type, texture) ==
    [t \in DOMAIN textures \cup {type} |-> IF t = type THEN texture ELSE textures[t]]

\* `m as u8`: the discriminant of a model variant
model_as_u8(m) == (CHOOSE i \in 1..Len(RenderRequestEntryModel) : RenderRequestEntryModel[i] = m) - 1

\* RenderRequestEntryModel::COUNT
COUNT == Len(RenderRequestEntryModel)

from_repr_OneBased(discriminant) ==
    IF discriminant >= 1 /\ discriminant <= COUNT
    THEN Some(RenderRequestEntryModel[discriminant])
    ELSE None

\* RenderRequestEntryModel::from_repr: the variant with that discriminant, if any
from_repr(discriminant) ==
    IF discriminant < COUNT THEN Some(RenderRequestEntryModel[discriminant + 1]) ELSE None

\* impl From<ResolvedRenderEntryTextures> for ResolvedRenderEntryTexturesMarker
ResolvedRenderEntryTexturesMarker_from(value) ==
    [model |-> IF IsSome(value.model) THEN model_as_u8(Unwrap(value.model)) % 256
                                      ELSE COUNT % 256]

new_from_marker_slice(textures, marker) ==
    [textures |-> textures, model |-> from_repr(marker[1])]

to_marker_slice(self) ==
    <<IF IsSome(self.model) THEN model_as_u8(Unwrap(self.model)) % 256 ELSE COUNT % 256>>

----------------------------------------------------------------------------
(* ModelCacheConfiguration: cache expiry                                   *)
(*                                                                         *)
(* A SystemTime is a number of time units 0 .. MaxTime since the epoch (an *)
(* i64 count of seconds in the source) and a Duration a number of units    *)
(* 0 .. 2 * MaxTime + 1 (a u64 count), the largest being Duration::MAX.    *)
(***************************************************************************)

Duration_MAX == 2 * MaxTime + 1

KeepCachedFor(duration) == [bias |-> "KeepCachedFor", duration |-> duration]
CacheIndefinitely == [bias |-> "CacheIndefinitely", duration |-> 0]

get_cache_duration_with_default(biases, entry, duration) ==
    IF entry \in DOMAIN biases
    THEN IF biases[entry].bias = "KeepCachedFor"
         THEN biases[entry].duration
         ELSE Duration_MAX
    ELSE duration

\* SystemTime::checked_add: None when the sum is not a SystemTime
checked_add(time, duration) ==
    IF time + duration <= MaxTime THEN Some(time + duration) ELSE None

\* the value returned, or the panic of `SystemTime + Duration` on overflow
is_expired_with_default(biases, entry, modified, duration_default, time_now) ==
    LET duration == get_cache_duration_with_default(biases, entry, duration_default)
    IN  IF duration = Duration_MAX
        THEN [returned |-> Some(ResultOk(FALSE)), panicked |-> FALSE]
        ELSE IF modified = None
        THEN [returned |-> Some(ResultErr("ExplainedIoError")), panicked |-> FALSE]
        ELSE LET expiry == checked_add(Unwrap(modified), duration)
             IN  IF expiry = None
                 THEN [returned |-> None, panicked |-> TRUE]
                 ELSE [returned |-> Some(ResultOk(Unwrap(expiry) < time_now)),
                       panicked |-> FALSE]

----------------------------------------------------------------------------
(* Inputs *)

Amounts == {k * (Scale \div 4) : k \in -1..MaxAmount} \cup {Scale \div 20}
AmountVecs == {splat(a) : a \in Amounts} \cup {Vec3(0, 0, a) : a \in Amounts}

ArmAngles == {F(30) * k : k \in -MaxRot..MaxRot}
ShadowHeights == {k * (Scale \div 2) : k \in -MaxShadow..MaxShadow}

Contexts ==
    [has_layers : BOOLEAN, has_hat_layer : BOOLEAN, has_cape : BOOLEAN,
     is_slim_arms : BOOLEAN,
     arm_rotation : ArmAngles,
     shadow_y_pos : {None} \cup {Some(y) : y \in ShadowHeights},
     armor_slots : {None} \cup {Some(s) : s \in SUBSET PlayerArmorSlot}]

\* material types: one with a texture for every slot, and those lacking one slot's texture
Materials == {PlayerArmorSlot} \cup {PlayerArmorSlot \ {s} : s \in PlayerArmorSlot}

\* parts the provider hands out: the six base cubes (both arm models), cape, shadows
SeedParts ==
    {compute_base_part(bp, slim) : bp \in BaseParts, slim \in BOOLEAN}
        \cup {cape_part} \cup {shadow_part(y) : y \in ShadowHeights}

DefaultContext ==
    [has_layers |-> FALSE, has_hat_layer |-> FALSE, has_cape |-> FALSE,
     is_slim_arms |-> FALSE, arm_rotation |-> 0, shadow_y_pos |-> None, armor_slots |-> None]

----------------------------------------------------------------------------
(* Part::expand driver *)

ExpiryIdle ==
    /\ cache_biases = [e \in {} |-> CacheIndefinitely]
    /\ expiry_entry = RenderRequestEntry("PlayerSkin", 0)
    /\ default_duration = 0
    /\ marker_modified = None
    /\ now = 0
    /\ expired = None
    /\ expiry_panicked = FALSE

MarkerIdle ==
    /\ marker_value = ResolvedRenderEntryTextures_new(NoTextures, None)
    /\ marker_slice = None
    /\ marker_struct = None
    /\ marker_decoded = None

ResolveIdle ==
    /\ resolved_cache = [e \in {} |-> None]
    /\ texture_cache = {}
    /\ request_entry = None
    /\ resolve_pc = "idle"
    /\ pending = <<>>
    /\ fetched = NoTextures
    /\ resolved_model = None
    /\ events = <<>>
    /\ outcome = None

DrawIdle ==
    /\ primitive = [vertices |-> <<>>, indices |-> <<>>]
    /\ drawn = 0
    /\ returned = FALSE
    /\ triangles = <<>>
    /\ visited = <<>>
    /\ colour_writes = {}
    /\ depth_writes = {}
    /\ depth_values = {}
    /\ owner = [p \in {} |-> 0]
    /\ depth_start = [p \in {} |-> 0]

FaceIdle ==
    /\ face_uv = FaceUv(0, 0, 0, 0)
    /\ face_texture = 0
    /\ face_horizontal = FALSE
    /\ face = None

ExpandIdle ==
    /\ part = compute_base_part("Head", FALSE)
    /\ prevPart = None
    /\ amount = ZERO
    /\ expands = 0

\* an axis-aligned rectangle in the plane z = 0, `top` and `bottom` in either y order
Rect(x0, x1, top, bottom) ==
    Quad_new(Vec3(x0, top, 0), Vec3(x1, top, 0), Vec3(x0, bottom, 0), Vec3(x1, bottom, 0),
             <<0, 0>>, <<16, 16>>)

Rects ==
    {Rect(x0, x1, top, bottom) :
        <<x0, x1, top, bottom>> \in
            {r \in (0..MaxQuad) \X (0..MaxQuad) \X (0..MaxQuad) \X (0..MaxQuad) :
                r[1] < r[2] /\ r[3] # r[4]}}

XCoords == {-1, 0, 1, Grid - 1, Grid, Grid + 1}
YCoords == {-1, 1, Grid}
ZCoords == {0, MaxZ}
Positions == XCoords \X YCoords \X ZCoords
Triangles == Positions \X Positions \X Positions

\* a cleared depth buffer, and one holding 1.0, 1.5 and 0.0
DepthBuffers ==
    {[p \in Pixels |-> 0],
     [p \in Pixels |-> CASE (p[1] + p[2]) % 3 = 0 -> Scale
                         [] (p[1] + p[2]) % 3 = 1 -> Scale + Scale \div 2
                         [] OTHER -> 0]}

RasterIdle ==
    /\ output = [p \in Pixels |-> 0]
    /\ depth_buffer = [p \in Pixels |-> 0]
    /\ tri = None
    /\ output0 = output
    /\ depth0 = depth_buffer
    /\ reads = {}
    /\ writes = {}
    /\ shaded = {}

QuadIdle ==
    /\ quad = Rect(0, 1, 0, 1)
    /\ mesh = None

PartsIdle ==
    /\ context = DefaultContext
    /\ material = {}
    /\ region = None
    /\ result = <<>>
    /\ panicked = FALSE

InitExpand ==
    /\ part \in SeedParts
    /\ prevPart = None
    /\ amount = ZERO
    /\ expands = 0
    /\ PartsIdle
    /\ QuadIdle
    /\ RasterIdle
    /\ FaceIdle
    /\ DrawIdle
    /\ ResolveIdle
    /\ MarkerIdle
    /\ ExpiryIdle

Expand(amt) ==
    /\ expands < MaxExpands
    /\ part' = expand(part, amt)
    /\ prevPart' = Some(part)
    /\ amount' = amt
    /\ expands' = expands + 1
    /\ UNCHANGED <<partsVars, quadVars, rasterVars, faceVars, drawVars, resolveVars, markerVars, expiryVars>>

NextExpand == \E amt \in AmountVecs : Expand(amt)

SpecExpand == InitExpand /\ [][NextExpand]_vars

----------------------------------------------------------------------------
(* get_parts driver *)

InitParts ==
    /\ context \in Contexts
    /\ material \in Materials
    /\ region = None
    /\ result = <<>>
    /\ panicked = FALSE
    /\ ExpandIdle
    /\ QuadIdle
    /\ RasterIdle
    /\ FaceIdle
    /\ DrawIdle
    /\ ResolveIdle
    /\ MarkerIdle
    /\ ExpiryIdle

GetParts(bp) ==
    /\ region = None
    /\ region' = Some(bp)
    /\ LET r == get_parts(context, material, bp)
       IN  /\ result' = r.parts
           /\ panicked' = r.panicked
    /\ UNCHANGED <<context, material>>
    /\ UNCHANGED <<expandVars, quadVars, rasterVars, faceVars, drawVars, resolveVars, markerVars, expiryVars>>

NextParts == \E bp \in PlayerBodyPartType : GetParts(bp)

SpecParts == InitParts /\ [][NextParts]_vars

----------------------------------------------------------------------------
(* Quad mesh driver *)

InitQuad ==
    /\ quad \in Rects
    /\ mesh = None
    /\ ExpandIdle
    /\ PartsIdle
    /\ RasterIdle
    /\ FaceIdle
    /\ DrawIdle
    /\ ResolveIdle
    /\ MarkerIdle
    /\ ExpiryIdle

BuildMesh ==
    /\ mesh = None
    /\ mesh' = Some([vertices |-> get_vertices(quad), indices |-> get_indices(quad)])
    /\ UNCHANGED quad
    /\ UNCHANGED <<expandVars, partsVars, rasterVars, faceVars, drawVars, resolveVars, markerVars, expiryVars>>

NextQuad == BuildMesh

SpecQuad == InitQuad /\ [][NextQuad]_vars

----------------------------------------------------------------------------
(* draw_triangle driver *)

InitRaster ==
    /\ output = [p \in Pixels |-> 0]
    /\ depth_buffer \in DepthBuffers
    /\ tri = None
    /\ output0 = output
    /\ depth0 = depth_buffer
    /\ reads = {}
    /\ writes = {}
    /\ shaded = {}
    /\ ExpandIdle
    /\ PartsIdle
    /\ QuadIdle
    /\ FaceIdle
    /\ DrawIdle
    /\ ResolveIdle
    /\ MarkerIdle
    /\ ExpiryIdle

DrawTriangle(t) ==
    /\ tri = None
    /\ tri' = Some(t)
    /\ output0' = output
    /\ depth0' = depth_buffer
    /\ \E covered \in {covered_pixels(t)} :
       \E written \in {written_pixels(depth_buffer, t, covered)} :
       \E r \in {put_pixels(output, depth_buffer, t, covered, written)} :
           /\ output' = r.output
           /\ depth_buffer' = r.depth_buffer
           /\ reads' = r.reads
           /\ writes' = r.writes
           /\ shaded' = r.shaded
    /\ UNCHANGED <<expandVars, partsVars, quadVars, faceVars, drawVars, resolveVars, markerVars, expiryVars>>

NextRaster == tri = None /\ \E t \in Triangles : DrawTriangle(t)

SpecRaster == InitRaster /\ [][NextRaster]_vars

----------------------------------------------------------------------------
(* RawProjectElementFace::new driver *)

UvCoords == 0..MaxUv

\* the FaceUv values handed to the serializer: any rectangle of the texel grid
\* in any of the four rotation states, with any flip flags
FaceUvs ==
    {[FaceUv(r[1], r[2], r[3], r[4]) EXCEPT !.cw_rotation_count = o[1],
                                              !.flipped_horizontally = o[2],
                                              !.flipped_vertically = o[3]] :
        r \in {q \in UvCoords \X UvCoords \X UvCoords \X UvCoords : q[1] <= q[3] /\ q[2] <= q[4]},
        o \in (0..3) \X BOOLEAN \X BOOLEAN}

InitFace ==
    /\ face_uv \in FaceUvs
    /\ face_texture \in 0..1
    /\ face_horizontal \in BOOLEAN
    /\ face = None
    /\ ExpandIdle
    /\ PartsIdle
    /\ QuadIdle
    /\ RasterIdle
    /\ DrawIdle
    /\ ResolveIdle
    /\ MarkerIdle
    /\ ExpiryIdle

NewFace ==
    /\ face = None
    /\ face' = Some(RawProjectElementFace_new(face_texture, face_uv, face_horizontal))
    /\ UNCHANGED <<face_uv, face_texture, face_horizontal>>
    /\ UNCHANGED <<expandVars, partsVars, quadVars, rasterVars, drawVars, resolveVars, markerVars, expiryVars>>

NextFace == NewFace

SpecFace == InitFace /\ [][NextFace]_vars

----------------------------------------------------------------------------
(* draw_primitives driver *)

\* a vertex buffer after the vertex shader: two vertices off screen, one of
\* them at depth MaxZ, and two on the viewport border
VertexBuffer ==
    <<Vec3(-1, -1, 0), Vec3(Grid + 1, -1, MaxZ), Vec3(0, Grid, 0), Vec3(Grid, Grid, 0)>>

RECURSIVE SeqsUpTo(_, _)
SeqsUpTo(S, n) ==
    IF n = 0 THEN {<<>>}
    ELSE LET shorter == SeqsUpTo(S, n - 1)
         IN  shorter \cup {Append(q, x) : q \in {r \in shorter : Len(r) = n - 1}, x \in S}

IndexBuffers == SeqsUpTo(0..(Len(VertexBuffer) - 1), MaxIndices)

Primitives == {[vertices |-> VertexBuffer, indices |-> ix] : ix \in IndexBuffers}

\* a cleared depth buffer, one holding 0.0 and 1.0, and one holding 1.5 too
DrawDepthBuffers ==
    DepthBuffers \cup {[p \in Pixels |-> IF (p[1] + p[2]) % 2 = 0 THEN Scale ELSE 0]}

InitDraw ==
    /\ primitive \in Primitives
    /\ drawn = 0
    /\ returned = FALSE
    /\ triangles = <<>>
    /\ visited = <<>>
    /\ colour_writes = {}
    /\ depth_writes = {}
    /\ depth_values = {}
    /\ owner = [p \in Pixels |-> 0]
    /\ output = [p \in Pixels |-> 0]
    /\ depth_buffer \in DrawDepthBuffers
    /\ depth_start = depth_buffer
    /\ tri = None
    /\ output0 = output
    /\ depth0 = depth_buffer
    /\ reads = {}
    /\ writes = {}
    /\ shaded = {}
    /\ ExpandIdle
    /\ PartsIdle
    /\ QuadIdle
    /\ FaceIdle
    /\ ResolveIdle
    /\ MarkerIdle
    /\ ExpiryIdle

\* one iteration of `for triangle in triangles { self.draw_triangle(..) }`
DrawNextTriangle ==
    /\ ~returned
    /\ drawn < Len(chunks_exact(primitive.indices))
    /\ \E triangle \in {chunks_exact(primitive.indices)[drawn + 1]} :
       \E t \in {triangle_vertices(primitive.vertices, triangle)} :
       \E r \in {draw_triangle(output, depth_buffer, t)} :
           /\ triangles' = Append(triangles, triangle)
           /\ visited' = Append(visited, visited_pixels(t))
           /\ tri' = Some(t)
           /\ output0' = output
           /\ depth0' = depth_buffer
           /\ output' = r.output
           /\ depth_buffer' = r.depth_buffer
           /\ reads' = r.reads
           /\ writes' = r.writes
           /\ shaded' = r.shaded
           /\ colour_writes' = colour_writes \cup r.writes
           /\ depth_writes' = depth_writes \cup r.writes
           /\ depth_values' = depth_values \cup {r.depth_buffer[p] : p \in r.writes}
           /\ owner' = [p \in Pixels |-> IF p \in r.writes THEN drawn + 1 ELSE owner[p]]
    /\ drawn' = drawn + 1
    /\ UNCHANGED <<primitive, returned, depth_start>>
    /\ UNCHANGED <<expandVars, partsVars, quadVars, faceVars, resolveVars, markerVars, expiryVars>>

\* the loop is over: draw_primitives returns
ReturnFromDraw ==
    /\ ~returned
    /\ drawn >= Len(chunks_exact(primitive.indices))
    /\ returned' = TRUE
    /\ UNCHANGED <<primitive, drawn, triangles, visited, colour_writes, depth_writes,
                   depth_values, owner, depth_start>>
    /\ UNCHANGED <<expandVars, partsVars, quadVars, rasterVars, faceVars, resolveVars, markerVars, expiryVars>>

NextDraw == DrawNextTriangle \/ ReturnFromDraw

SpecDraw == InitDraw /\ [][NextDraw]_vars

\* index buffers made of the two triangles of a quad, a degenerate triangle
\* and a triangle wholly off screen, followed by up to two trailing indices
QuadIndexBuffers ==
    {ix \in IndexBuffers :
        /\ \A k \in 1..(Len(ix) \div 3) :
               SubSeq(ix, 3 * k - 2, 3 * k) \in {<<2, 0, 3>>, <<0, 1, 3>>, <<0, 0, 3>>, <<1, 0, 0>>}
        /\ SubSeq(ix, 3 * (Len(ix) \div 3) + 1, Len(ix)) \in {<<>>, <<0>>, <<0, 1>>}}

\* draw_primitives is a synchronous loop: a step that can be taken is taken
InitDrawFair ==
    /\ InitDraw
    /\ primitive.indices \in QuadIndexBuffers

SpecDrawFair == InitDrawFair /\ [][NextDraw]_vars /\ WF_vars(NextDraw)

----------------------------------------------------------------------------
(* resolve_entry_textures driver: one call at a time, and cache clean-up *)

TextureIds == 1..MaxTextures

ResolveEntries ==
    {RenderRequestEntry("MojangPlayerUuid", u) : u \in 1..MaxUuids}
        \cup {RenderRequestEntry("GeyserPlayerUuid", u) : u \in 1..MaxUuids}
        \cup {RenderRequestEntry("TextureHash", t) : t \in TextureIds}
        \cup {RenderRequestEntry("PlayerSkin", 0)}

\* what the Mojang session server can answer for a profile
ProfileAnswers ==
    [ok : BOOLEAN, textures_ok : BOOLEAN, skin : {None, Some(1)},
     cape : {None, Some(MaxTextures)}, slim : BOOLEAN]

\* what the Geyser API can answer for a Bedrock player
GeyserAnswers == [ok : BOOLEAN, skin : {Some(1)}, model : {"Steve", "Alex"}]

Answers(entry) ==
    CASE entry.kind = "MojangPlayerUuid" -> ProfileAnswers
      [] entry.kind = "GeyserPlayerUuid" -> GeyserAnswers
      [] OTHER -> {[ok |-> TRUE]}

InitResolve ==
    /\ ResolveIdle
    /\ ExpandIdle
    /\ PartsIdle
    /\ QuadIdle
    /\ RasterIdle
    /\ FaceIdle
    /\ DrawIdle
    /\ MarkerIdle
    /\ ExpiryIdle

\* the call returns Err(error)
Fail(error) ==
    /\ outcome' = Some(ResultErr(error))
    /\ resolve_pc' = "idle"

\* entry of resolve_entry_textures: the resolved-texture cache is asked first
ResolveEntryTextures(entry) ==
    /\ resolve_pc = "idle"
    /\ request_entry' = Some(entry)
    /\ pending' = <<>>
    /\ fetched' = NoTextures
    /\ resolved_model' = None
    /\ \/ /\ events' = <<Event("get_cached_resolved_texture", entry.value, "err")>>
          /\ Fail("Cache")
       \/ LET cached == get_cached_resolved_texture(resolved_cache, entry)
          IN  IF IsSome(cached)
              THEN /\ events' = <<Event("get_cached_resolved_texture", entry.value, "hit")>>
                   /\ outcome' = Some(ResultOk(Unwrap(cached)))
                   /\ resolve_pc' = "idle"
              ELSE /\ events' = <<Event("get_cached_resolved_texture", entry.value, "miss")>>
                   /\ outcome' = None
                   /\ resolve_pc' = "lookup"
    /\ UNCHANGED <<resolved_cache, texture_cache>>
    /\ UNCHANGED <<expandVars, partsVars, quadVars, rasterVars, faceVars, drawVars, markerVars, expiryVars>>

\* the `match &entry`: profile or Geyser lookup, model, textures to fetch
ResolveLookup ==
    /\ resolve_pc = "lookup"
    /\ \E answer \in Answers(Unwrap(request_entry)) :
         LET l == lookup(Unwrap(request_entry), answer)
         IN  /\ events' = events \o l.events
             /\ IF IsSome(l.error)
                THEN /\ Fail(Unwrap(l.error))
                     /\ UNCHANGED <<pending, fetched, resolved_model>>
                ELSE /\ resolved_model' = l.model
                     /\ pending' = l.pending
                     /\ fetched' = l.fetched
                     /\ resolve_pc' = after_texture(l.pending)
                     /\ UNCHANGED outcome
    /\ UNCHANGED <<resolved_cache, texture_cache, request_entry>>
    /\ UNCHANGED <<expandVars, partsVars, quadVars, rasterVars, faceVars, drawVars, markerVars, expiryVars>>

\* fetch_game_profile_texture / fetch_texture_from_mojang up to the cache answer
FetchTextureGetCached ==
    /\ resolve_pc = "fetch"
    /\ LET slot == Head(pending)
       IN  \/ /\ slot.from_profile
              /\ Fail("InvalidTextureUrl")
              /\ UNCHANGED <<events, pending, fetched>>
           \/ /\ events' = Append(events, Event("get_cached_texture", slot.id, "err"))
              /\ Fail("Cache")
              /\ UNCHANGED <<pending, fetched>>
           \/ LET cached == get_cached_texture(texture_cache, slot.id)
              IN  IF after_cached_texture(cached) = "return"
                  THEN /\ events' = Append(events, Event("get_cached_texture", slot.id, "hit"))
                       /\ fetched' = insert(fetched, slot.type, Unwrap(cached))
                       /\ pending' = Tail(pending)
                       /\ resolve_pc' = after_texture(Tail(pending))
                       /\ UNCHANGED outcome
                  ELSE /\ events' = Append(events, Event("get_cached_texture", slot.id, "miss"))
                       /\ resolve_pc' = "upstream"
                       /\ UNCHANGED <<pending, fetched, outcome>>
    /\ UNCHANGED <<resolved_cache, texture_cache, request_entry, resolved_model>>
    /\ UNCHANGED <<expandVars, partsVars, quadVars, rasterVars, faceVars, drawVars, markerVars, expiryVars>>

\* fetch_texture_from_mojang: the request to the Mojang texture server
FetchTextureUpstream ==
    /\ resolve_pc = "upstream"
    /\ LET slot == Head(pending)
       IN  \/ /\ events' = Append(events, Event("fetch_texture_from_mojang", slot.id, "err"))
              /\ Fail("MojangRequest")
           \/ /\ events' = Append(events, Event("fetch_texture_from_mojang", slot.id, "ok"))
              /\ resolve_pc' = "cache_texture"
              /\ UNCHANGED outcome
    /\ UNCHANGED <<resolved_cache, texture_cache, request_entry, pending, fetched, resolved_model>>
    /\ UNCHANGED <<expandVars, partsVars, quadVars, rasterVars, faceVars, drawVars, markerVars, expiryVars>>

\* fetch_texture_from_mojang: the fetched texture is cached and returned
FetchTextureCache ==
    /\ resolve_pc = "cache_texture"
    /\ LET slot == Head(pending)
           texture == new_named(slot.id, texture_bytes(slot.id))
       IN  \/ /\ events' = Append(events, Event("cache_texture", slot.id, "err"))
              /\ Fail("Cache")
              /\ UNCHANGED <<texture_cache, pending, fetched>>
           \/ /\ events' = Append(events, Event("cache_texture", slot.id, "ok"))
              /\ texture_cache' = cache_texture(texture_cache, texture)
              /\ fetched' = insert(fetched, slot.type, texture)
              /\ pending' = Tail(pending)
              /\ resolve_pc' = after_texture(Tail(pending))
              /\ UNCHANGED outcome
    /\ UNCHANGED <<resolved_cache, request_entry, resolved_model>>
    /\ UNCHANGED <<expandVars, partsVars, quadVars, rasterVars, faceVars, drawVars, markerVars, expiryVars>>

\* the tail of resolve_entry_textures: build the result, cache it, return it
ResolveStore ==
    /\ resolve_pc = "store"
    /\ LET entry == Unwrap(request_entry)
           textures == ResolvedRenderEntryTextures_new(fetched, resolved_model)
       IN  \/ /\ events' = Append(events, Event("cache_resolved_texture", entry.value, "err"))
              /\ Fail("Cache")
              /\ UNCHANGED resolved_cache
           \/ /\ events' = Append(events, Event("cache_resolved_texture", entry.value, "ok"))
              /\ resolved_cache' = cache_resolved_texture(resolved_cache, entry, textures)
              /\ outcome' = Some(ResultOk(textures))
              /\ resolve_pc' = "idle"
    /\ UNCHANGED <<texture_cache, request_entry, pending, fetched, resolved_model>>
    /\ UNCHANGED <<expandVars, partsVars, quadVars, rasterVars, faceVars, drawVars, markerVars, expiryVars>>

\* do_cache_clean_up: an expired entry leaves one of the caches, at any time
CacheCleanUp ==
    /\ \/ /\ \E entry \in DOMAIN resolved_cache :
                resolved_cache' = [e \in DOMAIN resolved_cache \ {entry} |-> resolved_cache[e]]
          /\ UNCHANGED texture_cache
       \/ /\ \E texture_id \in texture_cache : texture_cache' = texture_cache \ {texture_id}
          /\ UNCHANGED resolved_cache
    /\ UNCHANGED <<request_entry, resolve_pc, pending, fetched, resolved_model, events, outcome>>
    /\ UNCHANGED <<expandVars, partsVars, quadVars, rasterVars, faceVars, drawVars, markerVars, expiryVars>>

NextResolve ==
    \/ \E entry \in ResolveEntries : ResolveEntryTextures(entry)
    \/ ResolveLookup
    \/ FetchTextureGetCached
    \/ FetchTextureUpstream
    \/ FetchTextureCache
    \/ ResolveStore
    \/ CacheCleanUp

SpecResolve == InitResolve /\ [][NextResolve]_vars

----------------------------------------------------------------------------
(* model marker driver *)

MojangTextures ==
    {new_named(t, texture_bytes(t)) : t \in TextureIds} \cup {new_unnamed(0)}

TextureMaps ==
    UNION {[types -> MojangTextures] : types \in SUBSET {"Skin", "Cape"}}

MarkerValues ==
    {ResolvedRenderEntryTextures_new(textures, model) :
        textures \in TextureMaps,
        model \in {None} \cup {Some(RenderRequestEntryModel[i]) : i \in 1..COUNT}}

InitMarker ==
    /\ marker_value \in MarkerValues
    /\ marker_slice = None
    /\ marker_struct = None
    /\ marker_decoded = None
    /\ ExpandIdle
    /\ PartsIdle
    /\ QuadIdle
    /\ RasterIdle
    /\ FaceIdle
    /\ DrawIdle
    /\ ResolveIdle
    /\ ExpiryIdle

ToMarkerSlice ==
    /\ marker_slice = None
    /\ marker_slice' = Some(to_marker_slice(marker_value))
    /\ UNCHANGED <<marker_value, marker_struct, marker_decoded>>
    /\ UNCHANGED <<expandVars, partsVars, quadVars, rasterVars, faceVars, drawVars, resolveVars, expiryVars>>

IntoMarker ==
    /\ marker_struct = None
    /\ marker_struct' = Some(ResolvedRenderEntryTexturesMarker_from(marker_value))
    /\ UNCHANGED <<marker_value, marker_slice, marker_decoded>>
    /\ UNCHANGED <<expandVars, partsVars, quadVars, rasterVars, faceVars, drawVars, resolveVars, expiryVars>>

NewFromMarkerSlice ==
    /\ IsSome(marker_slice)
    /\ marker_decoded = None
    /\ marker_decoded' = Some(new_from_marker_slice(marker_value.textures, Unwrap(marker_slice)))
    /\ UNCHANGED <<marker_value, marker_slice, marker_struct>>
    /\ UNCHANGED <<expandVars, partsVars, quadVars, rasterVars, faceVars, drawVars, resolveVars, expiryVars>>

NextMarker == ToMarkerSlice \/ IntoMarker \/ NewFromMarkerSlice

SpecMarker == InitMarker /\ [][NextMarker]_vars

----------------------------------------------------------------------------
(* is_expired_with_default driver *)

SystemTimes == 0..MaxTime
Durations == 0..Duration_MAX
CacheBiases == {KeepCachedFor(d) : d \in Durations} \cup {CacheIndefinitely}

\* the entry the configuration may hold a bias for, and one it holds none for
BiasedEntry == RenderRequestEntry("MojangPlayerUuid", 1)
ExpiryEntries == {BiasedEntry, RenderRequestEntry("TextureHash", 1)}

CacheBiasMaps == UNION {[entries -> CacheBiases] : entries \in SUBSET {BiasedEntry}}

InitExpiry ==
    /\ cache_biases \in CacheBiasMaps
    /\ expiry_entry \in ExpiryEntries
    /\ default_duration \in Durations
    /\ marker_modified \in {None} \cup {Some(t) : t \in SystemTimes}
    /\ now \in SystemTimes
    /\ expired = None
    /\ expiry_panicked = FALSE
    /\ ExpandIdle
    /\ PartsIdle
    /\ QuadIdle
    /\ RasterIdle
    /\ FaceIdle
    /\ DrawIdle
    /\ ResolveIdle
    /\ MarkerIdle

IsExpired ==
    /\ expired = None
    /\ ~expiry_panicked
    /\ LET r == is_expired_with_default(cache_biases, expiry_entry, marker_modified,
                                        default_duration, now)
       IN  /\ expired' = r.returned
           /\ expiry_panicked' = r.panicked
    /\ UNCHANGED <<cache_biases, expiry_entry, default_duration, marker_modified, now>>
    /\ UNCHANGED <<expandVars, partsVars, quadVars, rasterVars, faceVars, drawVars, resolveVars, markerVars>>

NextExpiry == IsExpired

SpecExpiry == InitExpiry /\ [][NextExpiry]_vars

----------------------------------------------------------------------------
(* Part::expand *)

Centre2(p) == VAdd(VMulS(p.position, 2), p.size)    \* twice position + size/2

\* C1: expanding a Cube by a yields a Cube with size = old size + 2a and
\* position = old position - a on each axis, so its centre point does not move.
C1_CubeExpandKeepsCentre ==
    (IsSome(prevPart) /\ Unwrap(prevPart).kind = "Cube") =>
        LET old == Unwrap(prevPart)
        IN  /\ part.kind = "Cube"
            /\ part.size = VAdd(old.size, VAdd(amount, amount))
            /\ part.position = VSub(old.position, amount)
            /\ Centre2(part) = Centre2(old)

C1_Witness ==
    /\ IsSome(prevPart)
    /\ Unwrap(prevPart).kind = "Cube"
    /\ amount = splat(Scale \div 4)
    /\ part.size # Unwrap(prevPart).size

\* C2: expanding a Quad by a yields a Quad with size = old size + 2a on each
\* axis and exactly the old position.
C2_QuadExpandKeepsPosition ==
    (IsSome(prevPart) /\ Unwrap(prevPart).kind = "Quad") =>
        LET old == Unwrap(prevPart)
        IN  /\ part.kind = "Quad"
            /\ part.size = VAdd(old.size, VAdd(amount, amount))
            /\ part.position = old.position

C2_Witness ==
    /\ IsSome(prevPart)
    /\ Unwrap(prevPart).kind = "Quad"
    /\ amount = splat(Scale \div 4)
    /\ part.size # Unwrap(prevPart).size

----------------------------------------------------------------------------
(* get_parts *)

Called == IsSome(region)
Region == Unwrap(region)

\* C3: a body-overlay region with has_layers false, or the hat region with
\* has_hat_layer false, yields an empty list and no error, whatever the cape,
\* shadow, armor and arm-rotation fields of the context are.
C3_DisabledLayerIsEmpty ==
    (Called /\ \/ (Region \in BodyLayerParts /\ ~context.has_layers)
               \/ (Region = "HeadLayer" /\ ~context.has_hat_layer))
        => (result = <<>> /\ ~panicked)

C3_Witness ==
    /\ Called
    /\ Region = "LeftArmLayer"
    /\ ~context.has_layers
    /\ context.has_hat_layer
    /\ context.has_cape
    /\ IsSome(context.shadow_y_pos)
    /\ IsSome(context.armor_slots)
    /\ context.arm_rotation # 0
    /\ result = <<>>

BoxUvStart(p) == p.face_uvs.north.top_left

IsHeadCube(p) ==
    /\ p.kind = "Cube"
    /\ p.position = Vec3(F(-4), F(24), F(-4))
    /\ p.size = Vec3(F(8), F(8), F(8))
    /\ BoxUvStart(p) = <<8, 8>>

\* C4 as stated: Head with has_layers = false, has_hat_layer = false and
\* armor_slots = None yields exactly one part, the head cube at (-4,24,-4)
\* of size (8,8,8) with UV box start (8,8).
C4_HeadAloneAsStated ==
    (Called /\ Region = "Head" /\ ~context.has_layers /\ ~context.has_hat_layer
            /\ context.armor_slots = None)
        => (Len(result) = 1 /\ IsHeadCube(result[1]))

\* C4 amended: Head with has_layers = false, has_hat_layer = false,
\* armor_slots = None and no shadow_y_pos yields exactly one part, the head
\* cube at (-4,24,-4) of size (8,8,8) with UV box start (8,8).
C4_HeadAlone ==
    (Called /\ Region = "Head" /\ ~context.has_layers /\ ~context.has_hat_layer
            /\ context.armor_slots = None /\ context.shadow_y_pos = None)
        => (~panicked /\ Len(result) = 1 /\ IsHeadCube(result[1]))

C4_Witness ==
    /\ Called
    /\ Region = "Head"
    /\ ~context.has_layers
    /\ ~context.has_hat_layer
    /\ context.armor_slots = None
    /\ context.shadow_y_pos = None
    /\ context.has_cape
    /\ Len(result) = 1

\* C5: for every swing angle r the base part of LeftArm has anchor
\* size * (-1,2,0) and Z-rotation -r, that of RightArm anchor size * (1,2,0)
\* and Z-rotation +r (size being the slim size for the slim model); the base
\* part of Head, Body and the legs has no anchor and zero rotation.
C5_ArmPivot ==
    (Called /\ Region \in BaseParts) =>
        LET base == result[1]
            r == context.arm_rotation
            armSize == IF context.is_slim_arms THEN Vec3(F(3), F(12), F(4))
                                               ELSE Vec3(F(4), F(12), F(4))
        IN  /\ ~panicked
            /\ Region = "LeftArm" =>
                  /\ base.size = armSize
                  /\ base.anchor = Some([anchor |-> Vec3(-base.size[1], 2 * base.size[2], 0)])
                  /\ base.rotation[3] = -r
            /\ Region = "RightArm" =>
                  /\ base.size = armSize
                  /\ base.anchor = Some([anchor |-> Vec3(base.size[1], 2 * base.size[2], 0)])
                  /\ base.rotation[3] = r
            /\ Region \notin {"LeftArm", "RightArm"} =>
                  /\ base.anchor = None
                  /\ base.rotation = ZERO

C5_Witness ==
    /\ Called
    /\ Region = "LeftArm"
    /\ ~context.is_slim_arms
    /\ context.arm_rotation = F(30)
    /\ result[1].anchor = Some([anchor |-> Vec3(F(-4), F(24), 0)])
    /\ result[1].rotation[3] = F(-30)

\* C6: HeadLayer with has_hat_layer = true yields exactly one Cube, the head
\* cube (size (8,8,8), UV start (8,8)) expanded by 0.5 per axis, with UV box
\* start shifted by (+32, +0).
C6_HatLayer ==
    (Called /\ Region = "HeadLayer" /\ context.has_hat_layer) =>
        /\ ~panicked
        /\ Len(result) = 1
        /\ result[1].kind = "Cube"
        /\ result[1].size = Vec3(F(8) + Scale, F(8) + Scale, F(8) + Scale)
        /\ BoxUvStart(result[1]) = <<8 + 32, 8 + 0>>

C6_Witness ==
    /\ Called
    /\ Region = "HeadLayer"
    /\ context.has_hat_layer
    /\ ~context.has_layers
    /\ Len(result) = 1
    /\ result[1].size = Vec3(F(9), F(9), F(9))

LayerEnabled ==
    \/ (Region \in BodyLayerParts /\ context.has_layers)
    \/ (Region = "HeadLayer" /\ context.has_hat_layer)

BaseRegionOf(bp) ==
    CASE bp = "HeadLayer" -> "Head"
      [] bp = "BodyLayer" -> "Body"
      [] bp = "LeftArmLayer" -> "LeftArm"
      [] bp = "RightArmLayer" -> "RightArm"
      [] bp = "LeftLegLayer" -> "LeftLeg"
      [] bp = "RightLegLayer" -> "RightLeg"

LayerMargin(bp) == IF bp = "HeadLayer" THEN Scale \div 2 ELSE Scale \div 4

LayerUvShift(bp) ==
    CASE bp = "HeadLayer" -> <<32, 0>>
      [] bp = "BodyLayer" -> <<0, 16>>
      [] bp = "LeftArmLayer" -> <<16, 0>>
      [] bp = "RightArmLayer" -> <<0, 16>>
      [] bp = "LeftLegLayer" -> <<-16, 0>>
      [] bp = "RightLegLayer" -> <<0, 16>>

\* C7: an enabled layer or hat-layer region yields exactly one part: the base
\* part of the matching non-layer region expanded by 0.5 (head) or 0.25
\* (others), its UV box rebuilt from the unexpanded base size at the base
\* box-UV start plus the region's offset; never a cape, shadow or armor part.
C7_LayerIsExpandedBase ==
    (Called /\ LayerEnabled) =>
        LET base == get_parts(context, material, BaseRegionOf(Region)).parts[1]
            m == LayerMargin(Region)
            shift == LayerUvShift(Region)
            start == BoxUvStart(base)
        IN  /\ ~panicked
            /\ result =
                 <<[base EXCEPT
                      !.size = Vec3(@[1] + 2 * m, @[2] + 2 * m, @[3] + 2 * m),
                      !.position = Vec3(@[1] - m, @[2] - m, @[3] - m),
                      !.face_uvs = box_uv(start[1] + shift[1], start[2] + shift[2],
                                          <<base.size[1] \div Scale, base.size[2] \div Scale,
                                            base.size[3] \div Scale>>)]>>

C7_Witness ==
    /\ Called
    /\ Region = "LeftLegLayer"
    /\ context.has_layers
    /\ context.has_cape
    /\ IsSome(context.shadow_y_pos)
    /\ context.armor_slots = Some(PlayerArmorSlot)
    /\ material = PlayerArmorSlot
    /\ Len(result) = 1
    /\ BoxUvStart(result[1]) = <<4, 52>>
    /\ result[1].size = Vec3(F(4) + Scale \div 2, F(12) + Scale \div 2, F(4) + Scale \div 2)

CapeIndices == {i \in 1..Len(result) : result[i].texture = "Cape"}

\* C8: a cape part is appended iff the region is the non-layer Body and
\* has_cape is true; it is a Cube with the Cape texture, position (-5,8,1),
\* size (10,16,1), box-UV start (1,1), anchor (0,24,2), rotation (5,180,0),
\* and it follows the base body part.
C8_CapeOnlyOnBody ==
    Called =>
        /\ ~panicked
        /\ (CapeIndices # {}) <=> (Region = "Body" /\ context.has_cape)
        /\ (Region = "Body" /\ context.has_cape) =>
              /\ CapeIndices = {2}
              /\ result[1].texture = "Skin"
              /\ result[1].position = Vec3(F(-4), F(12), F(-2))
              /\ result[2].kind = "Cube"
              /\ result[2].position = Vec3(F(-5), F(8), F(1))
              /\ result[2].size = Vec3(F(10), F(16), F(1))
              /\ BoxUvStart(result[2]) = <<1, 1>>
              /\ result[2].anchor = Some([anchor |-> Vec3(0, F(24), F(2))])
              /\ result[2].rotation = Vec3(F(5), F(180), 0)

C8_Witness ==
    /\ Called
    /\ Region = "Body"
    /\ context.has_cape
    /\ context.armor_slots = Some(PlayerArmorSlot)
    /\ material = PlayerArmorSlot
    /\ Len(result) = 4
    /\ result[2].texture = "Cape"

ShadowIndices == {i \in 1..Len(result) : result[i].texture = "Shadow"}

\* C9: a shadow part is appended iff the region is the non-layer Head and
\* shadow_y_pos is set; it is a Quad with the Shadow texture at position
\* (-8, shadow_y_pos, -8) with size (16,0,16).
C9_ShadowOnlyOnHead ==
    Called =>
        /\ ~panicked
        /\ (ShadowIndices # {}) <=> (Region = "Head" /\ IsSome(context.shadow_y_pos))
        /\ (Region = "Head" /\ IsSome(context.shadow_y_pos)) =>
              /\ ShadowIndices = {2}
              /\ result[2].kind = "Quad"
              /\ result[2].position = Vec3(F(-8), Unwrap(context.shadow_y_pos), F(-8))
              /\ result[2].size = Vec3(F(16), 0, F(16))

C9_Witness ==
    /\ Called
    /\ Region = "Head"
    /\ context.shadow_y_pos = Some(Scale \div 2)
    /\ Len(result) = 2
    /\ result[2].kind = "Quad"
    /\ result[2].position[2] = Scale \div 2

SlotBound(slot) ==
    /\ IsSome(context.armor_slots)
    /\ slot \in Unwrap(context.armor_slots)
    /\ slot \in material

BoundSlots == SelectSeq(get_armor_slots_for_part(Region), SlotBound)

ArmorIndices == {i \in 1..Len(result) : result[i].texture \notin {"Skin", "Cape", "Shadow"}}

\* C10: for a non-layer region the list ends with exactly one armor part per
\* slot mapped to the region that has a texture bound, in slot-mapping order
\* (none when armor_slots is None), all after the base part; each is the
\* non-slim base geometry of the region expanded by the slot's offset, plus
\* 0.05 on Z only for the chestplate on regions other than Body, and carries
\* the slot's texture.
C10_ArmorParts ==
    (Called /\ Region \in BaseParts) =>
        LET n == Len(BoundSlots)
            first == Len(result) - n
            geom == compute_base_part(Region, FALSE)
        IN  /\ ~panicked
            /\ first >= 1
            /\ ArmorIndices = (first + 1)..Len(result)
            /\ context.armor_slots = None => ArmorIndices = {}
            /\ \A i \in 1..n :
                 LET slot == BoundSlots[i]
                     ap == result[first + i]
                     a == get_offset(slot)
                     z == IF slot = "Chestplate" /\ Region # "Body" THEN Scale \div 20 ELSE 0
                 IN  /\ ap.texture = Unwrap(get_texture_type(material, slot))
                     /\ ap.kind = "Cube"
                     /\ ap.size = Vec3(geom.size[1] + 2 * a, geom.size[2] + 2 * a,
                                       geom.size[3] + 2 * a + 2 * z)
                     /\ ap.position = Vec3(geom.position[1] - a, geom.position[2] - a,
                                           geom.position[3] - a - z)
                     /\ ap.face_uvs = geom.face_uvs

C10_Witness ==
    /\ Called
    /\ Region = "LeftArm"
    /\ context.is_slim_arms
    /\ context.armor_slots = Some(PlayerArmorSlot)
    /\ material = PlayerArmorSlot
    /\ Len(result) = 2
    /\ result[2].texture = ArmorTexture("Chestplate")
    /\ result[2].size = Vec3(F(6), F(14), F(6) + Scale \div 10)

\* C11: every part of every list returned by get_parts has a size whose three
\* components are all non-negative.
C11_SizesNonNegative ==
    Called => \A i \in 1..Len(result) : \A k \in 1..3 : result[i].size[k] >= 0

C11_Witness ==
    /\ Called
    /\ Region = "Head"
    /\ IsSome(context.shadow_y_pos)
    /\ context.armor_slots = Some(PlayerArmorSlot)
    /\ material = PlayerArmorSlot
    /\ Len(result) = 3
    /\ result[2].size[2] = 0

\* C12: get_parts is total: for every region (base or layer) and every context
\* it returns a list and never reaches an unreachable!() branch.
C12_NeverUnreachable ==
    Called =>
        /\ ~panicked
        /\ \A i \in 1..Len(result) : result[i].kind \in {"Cube", "Quad"}
        /\ (~layers_disabled(context, Region)) => Len(result) >= 1

C12_Witness ==
    /\ Called
    /\ Region = "RightLegLayer"
    /\ context.has_layers
    /\ ~panicked
    /\ Len(result) = 1

----------------------------------------------------------------------------
(* Quad mesh *)

Built == IsSome(mesh)
Vertices == Unwrap(mesh).vertices
Indices == Unwrap(mesh).indices

\* position of the vertex the i-th index (1-based place in the buffer) refers to
IndexedPos(i) == Vertices[Indices[i] + 1].position

\* twice the signed area of the xy-triangle a, b, c
Area2(a, b, c) == (b[1] - a[1]) * (c[2] - a[2]) - (b[2] - a[2]) * (c[1] - a[1])

\* p lies in the closed xy-triangle a, b, c
InTriangle(p, a, b, c) ==
    LET e1 == Area2(a, b, p)
        e2 == Area2(b, c, p)
        e3 == Area2(c, a, p)
    IN  (e1 >= 0 /\ e2 >= 0 /\ e3 >= 0) \/ (e1 <= 0 /\ e2 <= 0 /\ e3 <= 0)

Double(v) == <<2 * v[1], 2 * v[2]>>

\* sample points on the half-unit lattice, one unit around the coordinate range
Lattice == (-2..(2 * MaxQuad + 2)) \X (-2..(2 * MaxQuad + 2))

\* C13: the index buffer [2,0,3, 0,1,3] over [TL,TR,BL,BR] gives the triangles
\* (BL,TL,BR) and (TL,TR,BR); both are wound clockwise seen with `top` up, and
\* every point of the rectangle lies in exactly one of them, except the points
\* of the shared TL-BR diagonal, which lie in both; no point outside is covered.
C13_QuadTiling ==
    Built =>
        LET TL == quad.top_left.position
            TR == quad.top_right.position
            BL == quad.bottom_left.position
            BR == quad.bottom_right.position
            cw == IF TL[2] > BL[2] THEN -1 ELSE 1
            t1 == <<IndexedPos(1), IndexedPos(2), IndexedPos(3)>>
            t2 == <<IndexedPos(4), IndexedPos(5), IndexedPos(6)>>
            in1(p) == InTriangle(p, Double(t1[1]), Double(t1[2]), Double(t1[3]))
            in2(p) == InTriangle(p, Double(t2[1]), Double(t2[2]), Double(t2[3]))
            inRect(p) == /\ 2 * TL[1] <= p[1] /\ p[1] <= 2 * BR[1]
                         /\ \/ (2 * TL[2] <= p[2] /\ p[2] <= 2 * BR[2])
                            \/ (2 * BR[2] <= p[2] /\ p[2] <= 2 * TL[2])
            onDiagonal(p) == Area2(Double(TL), Double(BR), p) = 0
        IN  /\ Len(Indices) = 6
            /\ t1 = <<BL, TL, BR>>
            /\ t2 = <<TL, TR, BR>>
            /\ Sgn(Area2(t1[1], t1[2], t1[3])) = cw
            /\ Sgn(Area2(t2[1], t2[2], t2[3])) = cw
            /\ \A p \in Lattice :
                 /\ inRect(p) <=> (in1(p) \/ in2(p))
                 /\ (in1(p) /\ in2(p)) <=> (inRect(p) /\ onDiagonal(p))

C13_Witness ==
    /\ Built
    /\ quad.top_left.position = Vec3(0, 0, 0)
    /\ quad.bottom_right.position = Vec3(MaxQuad, 2, 0)
    /\ IndexedPos(1) = Vec3(0, 2, 0)
    /\ IndexedPos(5) = Vec3(MaxQuad, 0, 0)

\* C14: get_indices has a length that is a multiple of 3 and every index is a
\* valid offset into get_vertices (index < 4).
C14_IndicesInRange ==
    Built =>
        /\ Len(Vertices) = 4
        /\ Len(Indices) % 3 = 0
        /\ \A i \in 1..Len(Indices) : Indices[i] >= 0 /\ Indices[i] < Len(Vertices)

C14_Witness ==
    /\ Built
    /\ Len(Indices) = 6
    /\ \E i \in 1..Len(Indices) : Indices[i] = 3

----------------------------------------------------------------------------
(* draw_triangle *)

Drawn == IsSome(tri)
Tri == Unwrap(tri)

\* all three transformed vertices lie in the viewport [0,1] x [0,1]
InsideViewport(t) ==
    \A i \in 1..3 : 0 <= t[i][1] /\ t[i][1] <= Grid /\ 0 <= t[i][2] /\ t[i][2] <= Grid

\* the sample point of a pixel, in grid units
SamplePoint(p) == <<p[1] * (Grid \div Width), p[2] * (Grid \div Height)>>

\* the sample point s has three non-negative barycentric coordinates with
\* respect to the 2D screen positions of t: the edge functions of s are
\* nowhere of the opposite sign of the area, and the area is not zero
InsideScreenTriangle(t, s) ==
    LET a == <<t[1][1], t[1][2]>>
        b == <<t[2][1], t[2][2]>>
        c == <<t[3][1], t[3][2]>>
        area == Area2(a, b, c)
    IN  /\ area # 0
        /\ Sgn(Area2(a, b, s)) * Sgn(area) >= 0
        /\ Sgn(Area2(b, c, s)) * Sgn(area) >= 0
        /\ Sgn(Area2(c, a, s)) * Sgn(area) >= 0

Painted == {p \in Pixels : output[p] # output0[p] \/ depth_buffer[p] # depth0[p]}

\* the barycentric denominator of t is zero (collinear or coincident vertices)
Degenerate(t) == barycentric_coordinates(0, 0, t[1], t[2], t[3]).denom = 0

\* C15: drawing one triangle whose vertices lie inside the viewport paints
\* exactly the pixels whose sample points have three non-negative barycentric
\* coordinates with respect to the triangle's screen positions.
C15_PaintsExactlyInside ==
    (Drawn /\ InsideViewport(Tri)) =>
        writes = {p \in Pixels : InsideScreenTriangle(Tri, SamplePoint(p))}

\* one of the coordinates u, v, w computed for pixel p compares below 0.0
NegativeCoordinate(t, p) ==
    LET bc == pixel_barycentric(t, p)
    IN  \/ RestNegative(bc.nv, bc.nw, bc.denom)
        \/ QuotNegative(bc.nv, bc.denom)
        \/ QuotNegative(bc.nw, bc.denom)

\* C16: a pixel for which a computed barycentric coordinate is negative, and a
\* pixel outside the clamped bounding box, keeps its colour and its depth.
C16_SkippedPixelsUntouched ==
    Drawn =>
        \A p \in Pixels :
            (p \notin bounding_box(Tri) \/ NegativeCoordinate(Tri, p)) =>
                /\ output[p] = output0[p]
                /\ depth_buffer[p] = depth0[p]
                /\ p \notin writes

C16_Witness ==
    /\ Drawn
    /\ ~Degenerate(Tri)
    /\ \E p \in Pixels : p \in bounding_box(Tri) /\ NegativeCoordinate(Tri, p)
    /\ \E p \in Pixels : output[p] # output0[p]
    /\ \E p \in Pixels : depth0[p] = 0 /\ depth_buffer[p] = 0


\* C17: drawing a degenerate triangle leaves the colour buffer and the depth
\* buffer completely unchanged.
C17_DegenerateDrawsNothing ==
    (Drawn /\ Degenerate(Tri)) => (output = output0 /\ depth_buffer = depth0)

\* C18: every depth-buffer read and every colour or depth write is at a
\* coordinate inside the viewport, and the clamped bounding box satisfies
\* min <= max <= width (resp. height).
C18_AccessInBounds ==
    Drawn =>
        /\ reads \subseteq Pixels
        /\ writes \subseteq Pixels
        /\ 0 <= min_screen_x(Tri) /\ min_screen_x(Tri) <= max_screen_x(Tri)
        /\ max_screen_x(Tri) <= Width
        /\ 0 <= min_screen_y(Tri) /\ min_screen_y(Tri) <= max_screen_y(Tri)
        /\ max_screen_y(Tri) <= Height

C18_Witness ==
    /\ Drawn
    /\ ~Degenerate(Tri)
    /\ \E i \in 1..3 : Tri[i][1] < 0
    /\ \E i \in 1..3 : Tri[i][1] > Grid
    /\ \E i \in 1..3 : Tri[i][2] < 0
    /\ writes # {}
    /\ reads # {}

\* C19: a pixel inside the triangle is written iff the triangle's depth (1.0)
\* is not less than the stored depth: equal and greater depths pass, a
\* strictly smaller depth leaves both buffers unchanged at the pixel.
C19_DepthTest ==
    Drawn =>
        \A p \in Pixels :
            (p \in bounding_box(Tri) /\ ~outside_triangle(pixel_barycentric(Tri, p))) =>
                /\ (p \in writes) <=> (pixel_depth >= depth0[p])
                /\ (pixel_depth >= depth0[p]) => depth_buffer[p] = pixel_depth
                /\ (pixel_depth < depth0[p]) =>
                      (output[p] = output0[p] /\ depth_buffer[p] = depth0[p])

C19_Witness ==
    /\ Drawn
    /\ ~Degenerate(Tri)
    /\ \E p \in writes : depth0[p] = pixel_depth
    /\ \E p \in writes : depth0[p] < pixel_depth
    /\ \E p \in reads : depth0[p] > pixel_depth /\ p \notin writes

\* the triangles that differ from t in the z components of their vertices only
ZVariants(t) ==
    {u \in Triangles : \A i \in 1..3 : u[i][1] = t[i][1] /\ u[i][2] = t[i][2]}

\* C20: the painted pixel set depends only on the x and y components of the
\* transformed positions: triangles differing only in z paint the same pixels.
C20_ZIgnored ==
    Drawn =>
        \A u \in ZVariants(Tri) :
            draw_triangle(output0, depth0, u).writes = writes

\* C21: the shading function is invoked for a pixel only after the pixel has
\* passed the depth test, never for a pixel the depth test rejects.
C21_ShadedOnlyAfterDepthTest ==
    Drawn => \A p \in shaded : p \in writes /\ depth0[p] <= Scale

----------------------------------------------------------------------------
(* RawProjectElementFace::new *)

Serialized == IsSome(face)
Face == Unwrap(face)

\* the number of rotate_cw calls made
RotationCalls(calls) == Cardinality({i \in DOMAIN calls : calls[i] = "rotate_cw"})

\* the flip calls made, in call order
FlipCalls(calls) == SelectSeq(calls, LAMBDA op : op # "rotate_cw")

\* C22: a FaceUv with rotation count c in 1..3 gets exactly 4 - c further
\* clockwise rotations, all before any flip, so the rectangle the flips are
\* applied to has rotation count 0; a FaceUv with c = 0 is not rotated.
C22_RotationNormalized ==
    Serialized =>
        LET c == face_uv.cw_rotation_count
            k == RotationCalls(Face.calls)
        IN  /\ k = (IF c = 0 THEN 0 ELSE 4 - c)
            /\ \A i \in 1..k : Face.calls[i] = "rotate_cw"
            /\ (c + k) % 4 = 0
            /\ Face.normalized.cw_rotation_count = 0

C22_Witness ==
    /\ Serialized
    /\ face_uv.cw_rotation_count = 1
    /\ face_uv.flipped_vertically
    /\ Len(Face.calls) = 4
    /\ Face.normalized.top_left # face_uv.top_left

\* C23: the flips applied are determined by the two flags alone, a horizontal
\* flag giving a horizontal flip and a vertical flag a vertical flip, the same
\* for every rotation count.
C23_FlipsFromFlagsAlone ==
    Serialized =>
        FlipCalls(Face.calls) =
            (IF face_uv.flipped_vertically THEN <<"flip_vertically">> ELSE <<>>)
            \o (IF face_uv.flipped_horizontally THEN <<"flip_horizontally">> ELSE <<>>)

----------------------------------------------------------------------------
(* draw_primitives *)

\* the transformed vertices of the k-th draw_triangle call
DrawnTriangle(k) == triangle_vertices(primitive.vertices, triangles[k])

\* the largest element of a non-empty set of numbers
Last(S) == CHOOSE k \in S : \A j \in S : j <= k

\* the full groups of three of the index buffer, in index-buffer order
FullGroups(ix) == [k \in 1..(Len(ix) \div 3) |-> SubSeq(ix, 3 * k - 2, 3 * k)]

\* the triangles drawn so far, by their place in the index buffer, that cover p
CoveringGroups(p) ==
    {k \in 1..drawn :
        k <= Len(primitive.indices) \div 3 /\
        p \in covered_pixels(triangle_vertices(primitive.vertices,
                                               FullGroups(primitive.indices)[k]))}

\* C24: after any sequence of draw_triangle calls the colour buffer and the
\* depth buffer have been written at exactly the same pixels, and every depth
\* value ever written is the constant 1.0.
C24_ColourAndDepthTogether ==
    /\ colour_writes = depth_writes
    /\ depth_values \subseteq {F(1)}
    /\ \A p \in Pixels \ colour_writes :
           output[p] = 0 /\ depth_buffer[p] = depth_start[p]
    /\ \A p \in depth_writes : depth_buffer[p] = F(1)

C24_Witness ==
    /\ drawn >= 2
    /\ colour_writes # {}
    /\ colour_writes # Pixels
    /\ depth_values = {F(1)}
    /\ \E p \in colour_writes : depth_start[p] = 0

\* C25: draw_primitives terminates; it has then drawn exactly floor(n/3)
\* triangles, the full groups of three of the index buffer in order, ignoring
\* trailing indices; each triangle visits at most width * height pixels.
C25_DrawPrimitivesTerminates ==
    /\ <>(/\ returned
          /\ drawn = Len(primitive.indices) \div 3
          /\ triangles = FullGroups(primitive.indices))
    /\ [](/\ Len(triangles) = drawn
          /\ drawn <= Len(primitive.indices) \div 3
          /\ triangles = SubSeq(FullGroups(primitive.indices), 1, drawn)
          /\ \A k \in DOMAIN visited : visited[k] <= Width * Height)

C25_Witness ==
    /\ returned
    /\ Len(primitive.indices) % 3 = 2
    /\ drawn = 1
    /\ Degenerate(DrawnTriangle(1))
    /\ visited[1] = Width * Height

\* C26: when the depth buffer initially holds no value above 1.0, a pixel
\* covered by several triangles of the draw call ends with the colour shaded
\* for the last covering triangle in index-buffer order.
C26_LastCoveringTriangleWins ==
    (\A q \in DOMAIN depth_start : depth_start[q] <= F(1)) =>
        \A p \in DOMAIN owner :
            CoveringGroups(p) # {} =>
                /\ owner[p] \in DOMAIN triangles
                /\ triangles[owner[p]] = FullGroups(primitive.indices)[Last(CoveringGroups(p))]

C26_Witness ==
    /\ returned
    /\ \A q \in Pixels : depth_start[q] <= F(1)
    /\ \E q \in Pixels : depth_start[q] = F(1)
    /\ \E p \in Pixels :
          /\ Cardinality(CoveringGroups(p)) = 2
          /\ owner[p] = 2
          /\ depth_start[p] = F(1)
          /\ ~Degenerate(DrawnTriangle(1))
          /\ ~Degenerate(DrawnTriangle(2))
          /\ triangles[1] # triangles[2]

----------------------------------------------------------------------------
(* arm pivot under expansion *)

ArmSign(bp) == IF bp \in {"LeftArm", "LeftArmLayer"} THEN -1 ELSE 1

ArmPivot(width) == Some([anchor |-> Vec3(ArmSign(Region) * width, F(24), 0)])

\* C27: expansion never changes an arm's pivot or swing: the layer part of an
\* arm has the anchor and Z-rotation of the base arm part of the same model
\* variant ((-+3,24,0) slim, (-+4,24,0) classic; -r left, +r right), and every
\* arm armor part has Z-rotation -r (left) or +r (right) and the anchor of the
\* unexpanded non-slim arm, (-4,24,0) or (4,24,0), also for the slim model.
C27_ExpansionKeepsArmPivot ==
    Called =>
        LET r == context.arm_rotation
            baseWidth == IF context.is_slim_arms THEN F(3) ELSE F(4)
        IN  /\ (Region \in {"LeftArmLayer", "RightArmLayer"} /\ LayerEnabled) =>
                  /\ ~panicked
                  /\ Len(result) = 1
                  /\ result[1].anchor = ArmPivot(baseWidth)
                  /\ result[1].rotation[3] = ArmSign(Region) * r
                  /\ result[1].size[1] = baseWidth + Scale \div 2
            /\ Region \in {"LeftArm", "RightArm"} =>
                  /\ ~panicked
                  /\ result[1].anchor = ArmPivot(baseWidth)
                  /\ result[1].rotation[3] = ArmSign(Region) * r
                  /\ \A i \in ArmorIndices :
                        /\ result[i].anchor = ArmPivot(F(4))
                        /\ result[i].rotation[3] = ArmSign(Region) * r
                        /\ result[i].size[1] > F(4)

C27_Witness ==
    /\ Called
    /\ Region = "RightArm"
    /\ context.is_slim_arms
    /\ context.arm_rotation = F(30)
    /\ ArmorIndices = {2}
    /\ result[1].anchor = Some([anchor |-> Vec3(F(3), F(24), 0)])
    /\ result[2].anchor = Some([anchor |-> Vec3(F(4), F(24), 0)])
    /\ result[2].rotation[3] = F(30)

----------------------------------------------------------------------------
(* resolve_entry_textures *)

Resolving == IsSome(request_entry)
ResolveReturned == Resolving /\ resolve_pc = "idle"
ResolvedHit == Resolving /\ events[1].answer = "hit"
ResolvedMiss == Resolving /\ events[1].answer = "miss"

UpstreamOps ==
    {"resolve_uuid_to_game_profile", "resolve_geyser_uuid_to_texture_and_model",
     "fetch_texture_from_mojang"}

\* the operation at position i of the call is `op` on `key` and answered `answer`
EventIs(i, op, key, answer) ==
    /\ i \in 1..Len(events)
    /\ events[i].op = op
    /\ events[i].key = key
    /\ events[i].answer = answer

\* texture `id` was in hand before position i: read from the texture cache or fetched upstream
Obtained(id, i) ==
    \E j \in 1..(i - 1) :
        \/ EventIs(j, "get_cached_texture", id, "hit")
        \/ EventIs(j, "fetch_texture_from_mojang", id, "ok")

\* the profile or Geyser lookup the entry needs succeeded before position i
LookedUp(entry, i) ==
    /\ entry.kind = "MojangPlayerUuid" =>
          \E j \in 1..(i - 1) : EventIs(j, "resolve_uuid_to_game_profile", entry.value, "ok")
    /\ entry.kind = "GeyserPlayerUuid" =>
          \E j \in 1..(i - 1) :
              EventIs(j, "resolve_geyser_uuid_to_texture_and_model", entry.value, "ok")

----------------------------------------------------------------------------
(* model marker *)

\* C29: the model marker round-trips: new_from_marker_slice(textures,
\* to_marker_slice()) has the model the value had, for None, Some(Steve) and
\* Some(Alex); None is written as the byte COUNT, which is the byte of no
\* model, and distinct models are written as distinct bytes; From::from
\* yields the same byte as to_marker_slice.
C29_MarkerRoundTrip ==
    /\ IsSome(marker_slice) =>
          LET byte == Unwrap(marker_slice)[1]
          IN  /\ Len(Unwrap(marker_slice)) = 1
              /\ byte \in 0..255
              /\ marker_value.model = None <=> byte = COUNT
              /\ IsSome(marker_struct) => Unwrap(marker_struct).model = byte
    /\ IsSome(marker_decoded) =>
          /\ Unwrap(marker_decoded).model = marker_value.model
          /\ Unwrap(marker_decoded).textures = marker_value.textures
    /\ \A a, b \in {ResolvedRenderEntryTextures_new(NoTextures, Some(RenderRequestEntryModel[i])) : i \in 1..COUNT} :
          /\ to_marker_slice(a) # <<COUNT>>
          /\ a.model # b.model => to_marker_slice(a) # to_marker_slice(b)

C29_Witness ==
    /\ marker_value.model = Some("Alex")
    /\ DOMAIN marker_value.textures = {"Skin", "Cape"}
    /\ marker_slice = Some(<<1>>)
    /\ marker_struct = Some([model |-> 1])
    /\ IsSome(marker_decoded)
    /\ Unwrap(marker_decoded).model = Some("Alex")

----------------------------------------------------------------------------
(* cache expiry *)

ExpiryCalled == IsSome(expired) \/ expiry_panicked

EntryBias == IF expiry_entry \in DOMAIN cache_biases THEN Some(cache_biases[expiry_entry]) ELSE None

\* C30: cache expiry honours the per-entry bias: with bias CacheIndefinitely
\* is_expired_with_default returns false for every modification time and
\* current time; with bias KeepCachedFor(d) it uses d and not the default;
\* with no bias it uses the default duration; in the last two cases the
\* entry is expired exactly when modification time + duration is strictly
\* before the current time.
C30_ExpiryHonoursBias ==
    ExpiryCalled =>
        /\ EntryBias = Some(CacheIndefinitely) =>
              ~expiry_panicked /\ expired = Some(ResultOk(FALSE))
        /\ (IsSome(marker_modified) /\ EntryBias # Some(CacheIndefinitely)) =>
              LET d == IF IsSome(EntryBias) THEN Unwrap(EntryBias).duration
                                            ELSE default_duration
              IN  /\ ~expiry_panicked
                  /\ expired = Some(ResultOk(Unwrap(marker_modified) + d < now))

====
